---- MODULE Spec2Model ----
(***************************************************************************)
(* Model of the robot-swarm detection experiment:                          *)
(*   - generate_trials       (experiment_controller_JLU_study*.py)          *)
(*   - run_experiment        (experiment_controller_JLU_study.py)           *)
(*   - run_training          (experiment_controller_JLU_study_timing.py)    *)
(*   - the control loop main (thymio_controller_JLU_study*.py)              *)
(*                                                                         *)
(* A trial is the Python tuple (timestamp, cue, effect), here the sequence *)
(* <<timestamp, cue, effect>>: Python's trial[0] is trial[1] here.         *)
(* Python lists are sequences; a 0-based Python index i is i + 1 here.     *)
(***************************************************************************)
EXTENDS Integers, Sequences, FiniteSets, TLC

VARIABLES
    \* ---- generate_trials: its arguments and locals
    gen_pc,                 \* "idle" | "shuffle" | "fill_rep" | "fill_dur" | "done" | "raise"
    gen_args,               \* the arguments of the call (and the interval globals it reads)
    repeated_combinations,  \* list of <<cue, effect>>
    shuffle_i,              \* random.shuffle's index i (0-based), counting down
    loop_left,              \* iterations the for loop still has to run
    timestamp,              \* running cursor
    trials,                 \* the list being built / returned
    \* ---- one orchestrator session (run_experiment or run_training)
    variant,                \* "plain": experiment_controller_JLU_study.py; "timing": ..._timing.py
    pc,                     \* "main" | "gen" | "loop" | "completed" | "aborted" | "raised"
    run_args,               \* the arguments of run_experiment / run_training
    now,                    \* time.time(), in ticks of 10 ms since the program started
    start_time,             \* experiment_start_time / start_time (the clock baseline)
    elapsed_time,
    session_duration,       \* experiment_duration / total_duration, in seconds
    trial_index,
    cue_emitted,            \* run_experiment only
    robot_state,            \* global robot_state / experiment_params['robot_state']
    cue_state,
    stop_state,             \* experiment_params['stop_state'] (timing only)
    robot_stop_id,
    robot_stopped, robot_detected, trial_finished, in_trial, robot_stop_time,  \* run_training only
    published,              \* every send_string so far, as <<topic, command>>
    emitted,                \* every cue handed to the stimulus hardware, as <<trial index, cue>>
    resumes,                \* every detection: <<effect, time slept between the pass's
                            \*   reading of the clock and the go, time slept after it>>
    responses,              \* every response window closed: <<effect, long, short,
                            \*   Len(published) before the feedback>>, long and short
                            \*   as read by the feedback code
    abort_at,               \* Len(published) when the stop button was seen, -1 before
    \* ---- one robot controller (main of thymio_controller_JLU_study*.py)
    thymio,                 \* its locals and the robot's motor targets and leds
    thymio_pc,              \* "boot" | "ready" (no pass of the loop yet) | "loop" | "exited"
    thymio_clock,           \* time.time() of the controller, in half seconds
    delivered,              \* the bus message offered to the last pass (NoMessage if none)
    repeated,               \* the pass before the last was offered the same message
    timer_due,              \* the action whose live timer was past its duration when the
                            \* last pass began, "none" if there was none
    exit_cause,             \* "none" | what ended the loop: "message" (the unpacking of
                            \* the message), "bus", "sensor", "motor", "interrupt"
    bus_read                \* how many of the published directives the controller's
                            \*   socket is past (a session and a controller together)

genVars == <<gen_pc, gen_args, repeated_combinations, shuffle_i, loop_left, timestamp, trials>>

sessVars == <<variant, pc, run_args, now, start_time, elapsed_time, session_duration,
              trial_index, cue_emitted, robot_state, cue_state, stop_state, robot_stop_id,
              robot_stopped, robot_detected, trial_finished, in_trial, robot_stop_time,
              published, emitted, responses, resumes, abort_at>>

robotVars == <<thymio, thymio_pc, thymio_clock, delivered, repeated, timer_due, exit_cause,
               bus_read>>

vars == <<genVars, sessVars, robotVars>>

-----------------------------------------------------------------------------
(* Bounds of the generator's input space.                                  *)
MaxRep == 2        \* largest num_rep drawn for the parametric inputs
MaxGapWidth == 2   \* largest max_interval - min_interval drawn

-----------------------------------------------------------------------------
(* Python arithmetic.                                                      *)

\* int(a / b) for integers a and b > 0: float division, then truncation toward
\* zero (TLA+'s \div rounds toward minus infinity).
TruncDiv(a, b) == IF a >= 0 THEN a \div b ELSE -((-a) \div b)

\* A draw that ignores the lower end of the range.
RandIntFromZero(a, b) == 0 .. b

\* random.randint(a, b): any integer N with a <= N <= b.
RandInt(a, b) == a .. b

\* list * n: the list repeated n times (empty for n <= 0).
RECURSIVE ListTimes(_, _)
ListTimes(list, n) == IF n <= 0 THEN << >> ELSE list \o ListTimes(list, n - 1)

\* A swap that overwrites x[i] and loses its old value.
SwapLost(x, i, j) == [x EXCEPT ![i + 1] = x[j + 1]]

\* x[i], x[j] = x[j], x[i] with 0-based i and j.
Swap(x, i, j) == [x EXCEPT ![i + 1] = x[j + 1], ![j + 1] = x[i + 1]]

-----------------------------------------------------------------------------
(* generate_trials                                                         *)

GenArgs(n, d, so, eo, cues, effs, lo, hi) ==
    [num_rep |-> n, duration |-> d, start_offset |-> so, min_end_offset |-> eo,
     cue_types |-> cues, effect_types |-> effs, min_interval |-> lo, max_interval |-> hi]

\* [(cue, effect) for cue in cue_types for effect in effect_types]
Combinations(cue_types, effect_types) ==
    [k \in 1 .. Len(cue_types) * Len(effect_types) |->
        << cue_types[((k - 1) \div Len(effect_types)) + 1],
           effect_types[((k - 1) % Len(effect_types)) + 1] >>]

\* The count with the interval sum in place of the interval mean.
DurationTrialCountNoMean(a) ==
    TruncDiv(a.duration - a.start_offset - a.min_end_offset,
             a.max_interval + a.min_interval)

\* int((duration - start_offset - min_end_offset) / ((max_interval + min_interval) / 2))
DurationTrialCount(a) ==
    TruncDiv(2 * (a.duration - a.start_offset - a.min_end_offset),
             a.max_interval + a.min_interval)

\* The call: binds the arguments, runs up to the first loop.
GenCall(a) ==
    /\ gen_args' = a
    /\ trials' = << >>
    /\ timestamp' = a.start_offset
    /\ IF a.num_rep # 0
       THEN LET rc == ListTimes(Combinations(a.cue_types, a.effect_types), a.num_rep) IN
            /\ repeated_combinations' = rc
            /\ shuffle_i' = Len(rc) - 1
            /\ loop_left' = Len(rc)
            /\ gen_pc' = IF Len(rc) - 1 >= 1 THEN "shuffle" ELSE "fill_rep"
       ELSE /\ repeated_combinations' = << >>
            /\ shuffle_i' = 0
            /\ loop_left' = IF DurationTrialCount(a) > 0 THEN DurationTrialCount(a) ELSE 0
            /\ gen_pc' = "fill_dur"

\* random.shuffle: for i in reversed(range(1, len(x))): j = randbelow(i + 1); swap
GenShuffleStep ==
    /\ gen_pc = "shuffle"
    /\ \E j \in 0 .. shuffle_i :
          repeated_combinations' = Swap(repeated_combinations, shuffle_i, j)
    /\ shuffle_i' = shuffle_i - 1
    /\ gen_pc' = IF shuffle_i - 1 >= 1 THEN "shuffle" ELSE "fill_rep"
    /\ UNCHANGED <<gen_args, loop_left, timestamp, trials>>

\* for cue, effect in repeated_combinations: append, draw the interval
GenAppendCombination ==
    /\ gen_pc = "fill_rep"
    /\ loop_left > 0
    /\ LET c == repeated_combinations[Len(repeated_combinations) - loop_left + 1] IN
          trials' = Append(trials, <<timestamp, c[1], c[2]>>)
    /\ \E inter_trial_interval \in RandInt(gen_args.min_interval, gen_args.max_interval) :
          timestamp' = timestamp + inter_trial_interval
    /\ loop_left' = loop_left - 1
    /\ UNCHANGED <<gen_pc, gen_args, repeated_combinations, shuffle_i>>

\* for _ in range(num_rep): append (timestamp, cue_types[0], 1), draw the interval
\* (intervals: what the draw of the interval can give)
GenAppendDefaultDraw(intervals) ==
    /\ gen_pc = "fill_dur"
    /\ loop_left > 0
    /\ Len(gen_args.cue_types) > 0
    /\ trials' = Append(trials, <<timestamp, gen_args.cue_types[1], 1>>)
    /\ \E inter_trial_interval \in intervals :
          timestamp' = timestamp + inter_trial_interval
    /\ loop_left' = loop_left - 1
    /\ UNCHANGED <<gen_pc, gen_args, repeated_combinations, shuffle_i>>

GenAppendDefault == GenAppendDefaultDraw(RandInt(gen_args.min_interval, gen_args.max_interval))

\* cue_types[0] on an empty list: IndexError leaves generate_trials
GenIndexError ==
    /\ gen_pc = "fill_dur"
    /\ loop_left > 0
    /\ Len(gen_args.cue_types) = 0
    /\ gen_pc' = "raise"
    /\ UNCHANGED <<gen_args, repeated_combinations, shuffle_i, loop_left, timestamp, trials>>

\* return trials (the other locals are gone)
GenReturn ==
    /\ gen_pc \in {"fill_rep", "fill_dur"}
    /\ loop_left = 0
    /\ gen_pc' = "done"
    /\ repeated_combinations' = << >>
    /\ timestamp' = 0
    /\ UNCHANGED <<gen_args, shuffle_i, loop_left, trials>>

GenStep == GenShuffleStep \/ GenAppendCombination \/ GenAppendDefault \/ GenIndexError \/ GenReturn

-----------------------------------------------------------------------------
(* The generator on its own: every call drawn from GenInputs.              *)

NoArgs == GenArgs(0, 0, 0, 0, << >>, << >>, 1, 1)

GenIdle ==
    /\ gen_pc = "idle"
    /\ gen_args = NoArgs
    /\ repeated_combinations = << >>
    /\ shuffle_i = 0
    /\ loop_left = 0
    /\ timestamp = 0
    /\ trials = << >>

\* Repetition-driven calls; intervals with 0 < min_interval <= max_interval.
RepInputs ==
    { GenArgs(n, 0, 30, 10, <<2>>, <<0, 1>>, 8, 8 + w) :
        n \in 1 .. MaxRep, w \in 0 .. MaxGapWidth }
    \cup { GenArgs(2, 0, 30, 10, <<0, 1>>, <<0, 1>>, 10, 10),
           GenArgs(1, 0, 0, 10, <<0, 1>>, <<0, 6>>, 8, 12),
           GenArgs(1, 0, 30, 10, <<0, 1, 2, 3>>, <<1>>, 8, 9),
           GenArgs(1, 0, 30, 10, << >>, <<0, 1>>, 8, 12),
           GenArgs(2, 0, 30, 10, <<0>>, << >>, 8, 12),
           GenArgs(-1, 0, 30, 10, <<0, 1>>, <<0, 1>>, 8, 12) }

\* Duration-driven calls.
DurInputs ==
    { GenArgs(0, d, 30, eo, c, <<0, 1>>, 8, 8 + w) :
        d \in {0, 35, 45, 50, 64, 70}, eo \in {10, 30}, c \in {<<2>>, <<3, 1>>},
        w \in 0 .. MaxGapWidth }
    \cup { GenArgs(0, 60, 30, 10, << >>, <<0, 1>>, 8, 12),
           GenArgs(0, 40, 30, 10, << >>, <<0, 1>>, 8, 12),
           GenArgs(0, 23, 3, 2, <<1>>, <<0, 1>>, 1, 2) }

GenInputs == RepInputs \cup DurInputs

GenStart ==
    /\ gen_pc = "idle"
    /\ \E a \in GenInputs : GenCall(a)

-----------------------------------------------------------------------------
(* The command bus: what the orchestrators send.                           *)

\* f"{n}" for the robot identifiers 0..9 (and -1, "no robot").
Digits == <<"0", "1", "2", "3", "4", "5", "6", "7", "8", "9">>
Str(n) == IF n \in 0 .. 9 THEN Digits[n + 1] ELSE "-1"

\* send_string(f"{topic} {command}"): the two tokens of the message.
AllOn == <<"all", "on">>
AllOff == <<"all", "off">>
Pause(id) == <<Str(id), "pause">>
Go(id) == <<Str(id), "go">>
RobotOn(id) == <<Str(id), "on">>
Led(n) == <<"led", Str(n)>>

\* Seconds to clock ticks of 10 ms.
Ticks(s) == 100 * s

-----------------------------------------------------------------------------
(* One orchestrator session: state before run_experiment / run_training.   *)

RunArgs(training, test, n, d, cues, effs) ==
    [is_training |-> training, is_test |-> test, num_rep |-> n, duration |-> d,
     cue_types |-> cues, effect_types |-> effs]

NoRun == RunArgs(FALSE, FALSE, 0, 0, << >>, << >>)

\* The module-level initial values of the globals.
SessIdle(v) ==
    /\ variant = v
    /\ pc = "main"
    /\ run_args = NoRun
    /\ now = 0
    /\ start_time = 0
    /\ elapsed_time = 0
    /\ session_duration = 0
    /\ trial_index = 0
    /\ cue_emitted = FALSE
    /\ robot_state = -1
    /\ cue_state = -1
    /\ stop_state = -1
    /\ robot_stop_id = IF v = "plain" THEN 0 ELSE -1
    /\ robot_stopped = FALSE
    /\ robot_detected = FALSE
    /\ trial_finished = FALSE
    /\ in_trial = FALSE
    /\ robot_stop_time = 0
    /\ published = << >>
    /\ emitted = << >>
    /\ responses = << >>
    /\ resumes = << >>
    /\ abort_at = -1

\* generate_trials runs inside the session.
SessGenerate ==
    /\ pc = "gen"
    /\ GenStep
    /\ UNCHANGED <<sessVars, robotVars>>

\* An exception of generate_trials leaves the session function too.
SessGenRaise ==
    /\ pc = "gen"
    /\ gen_pc = "raise"
    /\ pc' = "raised"
    /\ UNCHANGED <<genVars, variant, run_args, now, start_time, elapsed_time, session_duration,
                   trial_index, cue_emitted, robot_state, cue_state, stop_state, robot_stop_id,
                   robot_stopped, robot_detected, trial_finished, in_trial, robot_stop_time,
                   published, emitted, responses, resumes, abort_at>>

-----------------------------------------------------------------------------
(* The clock.  A polling loop reads time.time() once per pass; the model   *)
(* samples the readings on both sides of every comparison the loop makes   *)
(* (for elapsed >= x: x - 1 and x; for elapsed <= x: x and x + 1), and a   *)
(* reading may run ahead of the previous one by at most MaxSkip of these   *)
(* sample points.                                                          *)

MaxSkip == 2

\* The sample points a reading may reach from elapsed time el.
Ahead(points, el) ==
    {p \in points : p > el /\ Cardinality({q \in points : el < q /\ q <= p}) <= MaxSkip}

-----------------------------------------------------------------------------
(* run_experiment (experiment_controller_JLU_study.py)                     *)

num_robots == 10
robot_stop_duration == 5   \* seconds
start_offset == 30         \* seconds
end_offset == 30           \* seconds
stop_offset == 2           \* 0.02 s, in ticks
min_interval == 8
max_interval == 12
default_min_end_offset == 10   \* generate_trials(min_end_offset=10)

\* effect_types=[0, 1], the default run_experiment leaves in place
default_effect_types == <<0, 1>>

\* generate_trials(num_rep=num_rep, duration=duration, start_offset=start_offset, cue_types=cue)
ExpGenArgs(a) ==
    GenArgs(a.num_rep, a.duration, start_offset, default_min_end_offset,
            a.cue_types, default_effect_types, min_interval, max_interval)

\* What the session is started with: run_experiment(num_rep, duration, cue).
ExpInputs ==
    { RunArgs(FALSE, FALSE, 1, 0, <<0>>, default_effect_types),
      RunArgs(FALSE, FALSE, 0, 50, <<2>>, default_effect_types),
      RunArgs(FALSE, FALSE, 0, 60, <<3>>, default_effect_types),
      RunArgs(FALSE, FALSE, 0, 45, <<1>>, default_effect_types),
      RunArgs(FALSE, FALSE, 1, 0, << >>, default_effect_types),
      RunArgs(FALSE, FALSE, 0, 60, << >>, default_effect_types) }

\* The variables run_experiment never writes.
expFrame == <<genVars, variant, run_args, stop_state, robot_stopped, robot_detected,
              trial_finished, in_trial, robot_stop_time, responses, resumes>>

ExpCallFrom(inputs) ==
    /\ variant = "plain"
    /\ pc = "main"
    /\ \E a \in inputs :
          /\ run_args' = a
          /\ GenCall(ExpGenArgs(a))
    /\ pc' = "gen"
    /\ UNCHANGED <<variant, now, start_time, elapsed_time, session_duration,
                   trial_index, cue_emitted, robot_state, cue_state, stop_state, robot_stop_id,
                   robot_stopped, robot_detected, trial_finished, in_trial, robot_stop_time,
                   published, emitted, responses, resumes, abort_at>>

ExpCall == ExpCallFrom(ExpInputs)

\* Lines 178-203: the duration, the clock baseline, the flags, "all on".
ExpSetup ==
    /\ variant = "plain"
    /\ pc = "gen"
    /\ gen_pc = "done"
    /\ IF run_args.num_rep # 0 /\ trials = << >>
       THEN \* trials[-1] of an empty list: IndexError
            /\ pc' = "raised"
            /\ UNCHANGED <<start_time, elapsed_time, session_duration, trial_index, cue_emitted,
                           robot_state, cue_state, published>>
       ELSE /\ session_duration' = IF run_args.num_rep # 0
                                   THEN trials[Len(trials)][1] + end_offset
                                   ELSE run_args.duration
            /\ start_time' = now
            /\ elapsed_time' = 0
            /\ trial_index' = 0
            /\ cue_emitted' = FALSE
            /\ robot_state' = 0
            /\ cue_state' = 0
            /\ published' = Append(published, AllOn)
            /\ pc' = "loop"
    /\ UNCHANGED <<expFrame, now, robot_stop_id, emitted, abort_at>>

\* The globals and the timeline the body of the loop works on, el being the
\* elapsed time of the pass.
ExpState(el) ==
    [tl |-> trials, el |-> el, idx |-> trial_index, ce |-> cue_emitted,
     rstate |-> robot_state, cs |-> cue_state, id |-> robot_stop_id,
     pub |-> published, em |-> emitted]

\* A cue emission that skips the trial when the cue is "none".
emit_cue_none_skips(s, trial) ==
    IF trial[2] = 0
    THEN [s EXCEPT !.idx = s.idx + 1]
    ELSE [s EXCEPT !.cs = IF trial[2] \in 0 .. 3 THEN trial[2] + 1 ELSE s.cs,
                   !.em = Append(s.em, <<s.idx, trial[2]>>)]

\* emit_cue(trial): the cue goes to the audio / haptic hardware.
emit_cue(s, trial) ==
    [s EXCEPT !.cs = IF trial[2] \in 0 .. 3 THEN trial[2] + 1 ELSE s.cs,
              !.em = Append(s.em, <<s.idx, trial[2]>>)]

\* A pause whose draw may give num_robots.
start_pause_off_by_one(s, trial) ==
    IF trial[3] = 1
    THEN { [s EXCEPT !.id = id, !.pub = Append(s.pub, Pause(id)), !.rstate = 1] :
             id \in RandInt(0, num_robots) }
    ELSE { [s EXCEPT !.id = -1, !.rstate = 2] }

\* start_pause(trial): every outcome of the draw.
start_pause(s, trial) ==
    IF trial[3] = 1
    THEN { [s EXCEPT !.id = id, !.pub = Append(s.pub, Pause(id)), !.rstate = 1] :
             id \in RandInt(0, num_robots - 1) }
    ELSE { [s EXCEPT !.id = -1, !.rstate = 2] }

\* An end_pause that publishes the go whatever robot_stop_id is.
end_pause_unguarded(s) ==
    [s EXCEPT !.pub = Append(s.pub, Go(s.id)), !.rstate = 0, !.cs = 0]

\* end_pause()
end_pause(s) ==
    [s EXCEPT !.pub = IF s.id # -1 THEN Append(s.pub, Go(s.id)) ELSE s.pub,
              !.rstate = 0,
              !.cs = 0]

\* A stop branch that returns without a directive.
ExpAbortNothing == << >>

\* The directives of the stop branch (line 226).
ExpAbortDirectives == <<AllOff>>

\* Elapsed-time values the clock is sampled at.
ExpPoints ==
    {0} \cup {Ticks(session_duration) + e : e \in {0, 1}}
        \cup UNION { { Ticks(trials[i][1]) + x + e :
                         x \in {0, stop_offset, stop_offset + Ticks(robot_stop_duration)},
                         e \in {-1, 0} } : i \in 1 .. Len(trials) }

\* An if/elif/elif whose last branch leaves cue_emitted set.
ExpBranchKeepsCueFlag(s) ==
    LET due == s.idx < Len(s.tl)
        trial == s.tl[s.idx + 1]
    IN  IF due /\ ~s.ce /\ s.el >= Ticks(trial[1])
        THEN { [emit_cue(s, trial) EXCEPT !.ce = TRUE] }
        ELSE IF due /\ s.el >= Ticks(trial[1]) + stop_offset /\ s.rstate = 0
        THEN start_pause(s, trial)
        ELSE IF due /\ s.el >= Ticks(trial[1]) + stop_offset + Ticks(robot_stop_duration)
        THEN { [end_pause(s) EXCEPT !.idx = s.idx + 1] }
        ELSE {s}

\* The outcomes of the if/elif/elif after the stop check (lines 229-242).
ExpBranch(s) ==
    LET due == s.idx < Len(s.tl)
        trial == s.tl[s.idx + 1]
    IN  IF due /\ ~s.ce /\ s.el >= Ticks(trial[1])
        THEN { [emit_cue(s, trial) EXCEPT !.ce = TRUE] }
        ELSE IF due /\ s.el >= Ticks(trial[1]) + stop_offset /\ s.rstate = 0
        THEN start_pause(s, trial)
        ELSE IF due /\ s.el >= Ticks(trial[1]) + stop_offset + Ticks(robot_stop_duration)
        THEN { [end_pause(s) EXCEPT !.idx = s.idx + 1, !.ce = FALSE] }
        ELSE {s}

\* The body of the while loop after the stop check (lines 229-242); ids is what
\* the draw of start_pause can give.
ExpBranchesDraw(ids) ==
    \E r \in { x \in ExpBranch(ExpState(elapsed_time')) :
                 (robot_state = 0 /\ x.rstate = 1) => x.id \in ids } :
        /\ trial_index' = r.idx
        /\ cue_emitted' = r.ce
        /\ robot_state' = r.rstate
        /\ cue_state' = r.cs
        /\ robot_stop_id' = r.id
        /\ published' = r.pub
        /\ emitted' = r.em

\* One pass of `while (time.time() - experiment_start_time) <= experiment_duration`:
\* t is the clock of the pass (the loop condition and elapsed_time read the same
\* tick), stop the state of the stop button (GPIO.input(buttons['stop']) != 1).
ExpIterationDraw(ids) ==
    /\ variant = "plain"
    /\ pc = "loop"
    /\ \E p \in {now - start_time} \cup Ahead(ExpPoints, now - start_time), stop \in BOOLEAN :
          LET t == start_time + p
          IN  /\ now' = t
              /\ IF ~(t - start_time <= Ticks(session_duration))
                 THEN \* the loop ends: line 245
                      /\ published' = Append(published, AllOff)
                      /\ pc' = "completed"
                      /\ UNCHANGED <<elapsed_time, trial_index, cue_emitted, robot_state,
                                     cue_state, robot_stop_id, emitted, abort_at>>
                 ELSE /\ elapsed_time' = t - start_time
                      /\ IF stop
                         THEN /\ abort_at' = Len(published)
                              /\ published' = published \o ExpAbortDirectives
                              /\ pc' = "aborted"
                              /\ UNCHANGED <<trial_index, cue_emitted, robot_state,
                                             cue_state, robot_stop_id, emitted>>
                         ELSE /\ ExpBranchesDraw(ids)
                              /\ UNCHANGED <<pc, abort_at>>
    /\ UNCHANGED <<expFrame, start_time, session_duration>>

\* A pass with every outcome of the draw.
ExpIteration == ExpIterationDraw(Int)

-----------------------------------------------------------------------------
(* run_training (experiment_controller_JLU_study_timing.py)                *)
(* The main and stop buttons are sampled once per pass of the loop; the    *)
(* response buttons are read again by the feedback code of the same pass.  *)

training_end_margin == 10   \* total_duration = trials[-1][0] + 10
reset_sleep == 50           \* time.sleep(0.5) in reset_robots, in ticks

\* Bounds of the clock inside a detection / response window.
MaxWaitStep == 3   \* the clock advances by 0 or by MaxWaitStep tenths of a second per pass
MaxPolls == 1      \* passes of the loop that advance the clock, per window

\* generate_trials(num_repeats=..., cue_types=..., effect_types=...): the other
\* parameters keep their defaults (duration=0, start_offset=30, end_offset=10,
\* min_interval=8, max_interval=12).
TrnGenArgs(a) == GenArgs(a.num_rep, 0, 30, 10, a.cue_types, a.effect_types, 8, 12)

\* What the session is started with: run_training(is_training, is_test,
\* num_repeats, cue_types, effect_types); the last is run_training() itself.
TrnInputs ==
    { RunArgs(TRUE, FALSE, 1, 0, <<0>>, <<0, 6>>),
      RunArgs(FALSE, TRUE, 1, 0, <<0>>, <<0, 6>>),
      RunArgs(FALSE, FALSE, 1, 0, <<2>>, <<3>>),
      RunArgs(FALSE, FALSE, 0, 0, <<0>>, <<0, 1, 2, 3, 4, 5, 6>>) }

\* A reset that only turns the leds off.
ResetRobotsLedOnly == <<Led(0)>>

\* reset_robots(): "all off", sleep, "led 0"
ResetRobotsDirectives == <<AllOff, Led(0)>>

\* time.sleep(0.2 + 0.1 * effect), in ticks
SleepTicks(effect) == 20 + 10 * effect

\* The variables run_training never writes.
trnFrame == <<genVars, variant, run_args, cue_emitted>>

TrnCallFrom(inputs) ==
    /\ variant = "timing"
    /\ pc = "main"
    /\ \E a \in inputs :
          /\ run_args' = a
          /\ GenCall(TrnGenArgs(a))
    /\ pc' = "gen"
    /\ UNCHANGED <<variant, now, start_time, elapsed_time, session_duration,
                   trial_index, cue_emitted, robot_state, cue_state, stop_state, robot_stop_id,
                   robot_stopped, robot_detected, trial_finished, in_trial, robot_stop_time,
                   published, emitted, responses, resumes, abort_at>>

TrnCall == TrnCallFrom(TrnInputs)

\* A session that switches every robot on in the single-robot modes as well.
TrnSetupDrawAllOn(ids) ==
    /\ variant = "timing"
    /\ pc = "gen"
    /\ gen_pc = "done"
    /\ trials # << >>
    /\ session_duration' = trials[Len(trials)][1] + training_end_margin
    /\ now' = now + reset_sleep
    /\ cue_state' = 0
    /\ robot_state' = 0
    /\ trial_index' = 0
    /\ robot_stopped' = FALSE
    /\ robot_detected' = FALSE
    /\ trial_finished' = FALSE
    /\ in_trial' = FALSE
    /\ start_time' = now + reset_sleep
    /\ elapsed_time' = 0
    /\ robot_stop_time' = 0
    /\ \E id \in ids :
          /\ robot_stop_id' = id
          /\ published' = published \o ResetRobotsDirectives \o <<AllOn>>
    /\ pc' = "loop"
    /\ UNCHANGED <<genVars, variant, run_args, cue_emitted, stop_state, emitted, responses,
                   resumes, abort_at>>

\* Lines 231-273: the duration, reset_robots(), the flags, the clock baseline,
\* the robot of the session and its "on"; ids is what the draw of the
\* session's robot can give.
TrnSetupDraw(ids) ==
    /\ variant = "timing"
    /\ pc = "gen"
    /\ gen_pc = "done"
    /\ IF trials = << >>
       THEN \* trials[-1] of an empty list: IndexError
            /\ pc' = "raised"
            /\ UNCHANGED <<now, start_time, elapsed_time, session_duration, trial_index,
                           robot_state, cue_state, robot_stop_id, robot_stopped, robot_detected,
                           trial_finished, in_trial, robot_stop_time, published>>
       ELSE /\ session_duration' = trials[Len(trials)][1] + training_end_margin
            /\ now' = now + reset_sleep
            /\ cue_state' = 0
            /\ robot_state' = 0
            /\ trial_index' = 0
            /\ robot_stopped' = FALSE
            /\ robot_detected' = FALSE
            /\ trial_finished' = FALSE
            /\ in_trial' = FALSE
            /\ start_time' = now + reset_sleep
            /\ elapsed_time' = 0
            /\ robot_stop_time' = 0
            /\ IF run_args.is_training \/ run_args.is_test
               THEN \E id \in ids :
                       /\ robot_stop_id' = id
                       /\ published' = published \o ResetRobotsDirectives \o <<RobotOn(id)>>
               ELSE /\ robot_stop_id' = -1
                    /\ published' = published \o ResetRobotsDirectives \o <<AllOn>>
            /\ pc' = "loop"
    /\ UNCHANGED <<trnFrame, stop_state, emitted, responses, resumes, abort_at>>

TrnSetup == TrnSetupDraw(RandInt(0, num_robots - 1))

\* A pass that measures the elapsed time inside a window as well.
TrnStateUnfrozen(t) ==
    [tl |-> trials, clk |-> t, base |-> start_time,
     el |-> t - start_time,
     idx |-> trial_index, stopped |-> robot_stopped, detected |-> robot_detected,
     finished |-> trial_finished, intrial |-> in_trial, rst |-> robot_stop_time,
     id |-> robot_stop_id, rstate |-> robot_state, cs |-> cue_state, ss |-> stop_state,
     pub |-> published, em |-> emitted, resp |-> responses, res |-> resumes]

\* The locals and globals one pass of the loop reads and writes.
TrnState(t) ==
    [tl |-> trials, clk |-> t, base |-> start_time,
     el |-> IF ~in_trial THEN t - start_time ELSE elapsed_time,
     idx |-> trial_index, stopped |-> robot_stopped, detected |-> robot_detected,
     finished |-> trial_finished, intrial |-> in_trial, rst |-> robot_stop_time,
     id |-> robot_stop_id, rstate |-> robot_state, cs |-> cue_state, ss |-> stop_state,
     pub |-> published, em |-> emitted, resp |-> responses, res |-> resumes]

\* A trial that is handled without waiting for its offset.
TrnDueAnyTime(s) ==
    /\ s.idx < Len(s.tl)
    /\ ~s.stopped
    /\ ~s.intrial

\* Line 296: the current trial is up.
TrnDue(s) ==
    /\ s.idx < Len(s.tl)
    /\ ~s.stopped
    /\ s.el >= Ticks(s.tl[s.idx + 1][1])
    /\ ~s.intrial

\* handle_trial(trial, stop_robot=True), then lines 298-300; rid is the robot
\* random.randint draws when none is selected.
handle_trial(s, rid) ==
    LET trial == s.tl[s.idx + 1]
        id == IF s.id = -1 THEN rid ELSE s.id
    IN  [s EXCEPT !.ss = trial[3] + 1,
                  !.cs = IF trial[2] \in 0 .. 3 THEN trial[2] + 1 ELSE s.cs,
                  !.em = Append(s.em, <<s.idx, trial[2]>>),
                  !.id = id,
                  !.pub = Append(s.pub, Pause(id)),
                  !.rstate = 1,
                  !.stopped = TRUE,
                  !.rst = s.clk,
                  !.intrial = TRUE]

\* A detection that forgets the robot in every mode.
TrnDetectedForgetsRobot(s) ==
    LET trial == s.tl[s.idx + 1]
    IN  [s EXCEPT !.finished = IF run_args.is_training THEN TRUE ELSE s.finished,
                  !.detected = IF run_args.is_training THEN s.detected ELSE TRUE,
                  !.clk = s.clk + SleepTicks(trial[3]),
                  !.res = Append(s.res, <<trial[3], SleepTicks(trial[3]), 0>>),
                  !.pub = (IF s.id # -1 THEN Append(s.pub, Go(s.id)) ELSE s.pub)
                          \o (IF ~run_args.is_training THEN <<Led(1)>> ELSE << >>),
                  !.rstate = 0, !.cs = 0, !.ss = 0,
                  !.id = -1,
                  !.stopped = FALSE]

\* A detection that restarts the robot at once and sleeps afterwards.
TrnDetectedGoFirst(s) ==
    LET trial == s.tl[s.idx + 1]
        single == run_args.is_test \/ run_args.is_training
        go_clk == s.clk
    IN  [s EXCEPT !.finished = IF run_args.is_training THEN TRUE ELSE s.finished,
                  !.detected = IF run_args.is_training THEN s.detected ELSE TRUE,
                  !.clk = go_clk + SleepTicks(trial[3]),
                  !.res = Append(s.res, <<trial[3], go_clk - s.clk, SleepTicks(trial[3])>>),
                  !.pub = (IF s.id # -1 THEN Append(s.pub, Go(s.id)) ELSE s.pub)
                          \o (IF ~run_args.is_training THEN <<Led(1)>> ELSE << >>),
                  !.rstate = 0, !.cs = 0, !.ss = 0,
                  !.id = IF ~single THEN -1 ELSE s.id,
                  !.stopped = FALSE]

\* Lines 303-332: the stopped robot has been detected (user_main is pressed).
\* time.sleep() comes first, end_pause() and the led after it: go_clk is the
\* clock at the go, the clock at the end is the one the response window
\* opens at.
TrnDetected(s) ==
    LET trial == s.tl[s.idx + 1]
        single == run_args.is_test \/ run_args.is_training
        go_clk == s.clk + SleepTicks(trial[3])
    IN  [s EXCEPT !.finished = IF run_args.is_training THEN TRUE ELSE s.finished,
                  !.detected = IF run_args.is_training THEN s.detected ELSE TRUE,
                  !.clk = go_clk,
                  !.res = Append(s.res, <<trial[3], go_clk - s.clk, 0>>),
                  \* end_pause()
                  !.pub = (IF s.id # -1 THEN Append(s.pub, Go(s.id)) ELSE s.pub)
                          \o (IF ~run_args.is_training THEN <<Led(1)>> ELSE << >>),
                  !.rstate = 0, !.cs = 0, !.ss = 0,
                  \* a new robot next time, outside training and test
                  !.id = IF ~single THEN -1 ELSE s.id,
                  !.stopped = FALSE]

\* The feedback with correct and wrong exchanged for the short button.
FeedbackShortSwapped(effect, long, short) ==
    (IF long /\ effect = 0 THEN <<Led(3)>>
     ELSE IF long /\ effect = 6 THEN <<Led(2)>> ELSE << >>)
    \o
    (IF short /\ effect = 0 THEN <<Led(3)>>
     ELSE IF short /\ effect = 6 THEN <<Led(2)>> ELSE << >>)

\* Lines 339-358: the feedback for the buttons read.
Feedback(effect, long, short) ==
    (IF long /\ effect = 0 THEN <<Led(3)>>
     ELSE IF long /\ effect = 6 THEN <<Led(2)>> ELSE << >>)
    \o
    (IF short /\ effect = 0 THEN <<Led(2)>>
     ELSE IF short /\ effect = 6 THEN <<Led(3)>> ELSE << >>)

\* A response that leaves robot_detected set.
TrnRespondedKeepsDetected(s, long, short) ==
    LET trial == s.tl[s.idx + 1] IN
    [s EXCEPT !.pub = s.pub \o Feedback(trial[3], long, short),
              !.resp = Append(s.resp, <<trial[3], long, short, Len(s.pub)>>),
              !.finished = TRUE]

\* Lines 335-362: a response button is pressed in the response window; long and
\* short are the buttons as the feedback code reads them again.
TrnResponded(s, long, short) ==
    LET trial == s.tl[s.idx + 1] IN
    [s EXCEPT !.pub = s.pub \o Feedback(trial[3], long, short),
              !.resp = Append(s.resp, <<trial[3], long, short, Len(s.pub)>>),
              !.detected = FALSE,
              !.finished = TRUE]

\* A finish that leaves the clock baseline alone.
TrnFinishedNoCompensation(s) ==
    [s EXCEPT !.finished = FALSE,
              !.intrial = FALSE,
              !.pub = Append(s.pub, Led(0)),
              !.idx = s.idx + 1]

\* Lines 365-380: the trial is finished.
TrnFinished(s) ==
    [s EXCEPT !.finished = FALSE,
              !.intrial = FALSE,
              !.pub = Append(s.pub, Led(0)),
              !.idx = s.idx + 1,
              !.base = s.base + (s.clk - s.rst)]

\* Elapsed-time values the clock is sampled at outside a window.
TrnPoints ==
    {0} \cup {Ticks(session_duration) + e : e \in {0, 1}}
        \cup UNION { { Ticks(trials[i][1]) + e : e \in {-1, 0} } : i \in 1 .. Len(trials) }

\* The clock values a pass of the loop may read: outside a window the sampled
\* elapsed times, inside a window the last reading or a bounded step later.
TrnReadings ==
    IF in_trial
    THEN IF now - robot_stop_time < 10 * MaxWaitStep * MaxPolls
         THEN {now, now + 10 * MaxWaitStep}
         ELSE {now}
    ELSE {now} \cup {start_time + p : p \in Ahead(TrnPoints, now - start_time)}

\* Line 296: the trial is due.
TrnAfterDue(s, rid) == IF TrnDue(s) THEN handle_trial(s, rid) ELSE s

\* Line 303: the stopped robot is detected.
TrnAfterDetection(s, main) ==
    IF s.idx < Len(s.tl) /\ s.stopped /\ main THEN TrnDetected(s) ELSE s

\* Line 335: a response is given.
TrnAfterResponse(s, long, short, longf, shortf) ==
    IF s.idx < Len(s.tl) /\ s.detected /\ (long \/ short)
    THEN TrnResponded(s, longf, shortf) ELSE s

\* Line 365: the trial is finished.
TrnAfterFinish(s) == IF s.finished THEN TrnFinished(s) ELSE s

\* The four conditions of the loop body in their order, from the locals s of
\* the pass.
TrnPassResult(s, rid, main, long, short, longf, shortf) ==
    TrnAfterFinish(
        TrnAfterResponse(
            TrnAfterDetection(TrnAfterDue(s, rid), main), long, short, longf, shortf))

\* One pass of `while elapsed_time <= total_duration` (lines 278-389): t is the
\* clock, rid the robot a draw would give, main / long / short / stop the buttons
\* as the conditions read them, longf / shortf the response buttons as the
\* feedback code reads them (each GPIO.input call is a reading of its own).
TrnPass(t, rid, main, long, short, longf, shortf, stop) ==
    \E s4 \in {TrnPassResult(TrnState(t), rid, main, long, short, longf, shortf)} :
        /\ elapsed_time' = s4.el
        /\ trial_index' = s4.idx
        /\ robot_stopped' = s4.stopped
        /\ robot_detected' = s4.detected
        /\ trial_finished' = s4.finished
        /\ in_trial' = s4.intrial
        /\ robot_stop_time' = s4.rst
        /\ robot_stop_id' = s4.id
        /\ robot_state' = s4.rstate
        /\ cue_state' = s4.cs
        /\ stop_state' = s4.ss
        /\ start_time' = s4.base
        /\ emitted' = s4.em
        /\ responses' = s4.resp
        /\ resumes' = s4.res
        /\ IF stop
           THEN \* break, then reset_robots()
                /\ abort_at' = Len(s4.pub)
                /\ published' = s4.pub \o ResetRobotsDirectives
                /\ now' = s4.clk + reset_sleep
                /\ pc' = "aborted"
           ELSE /\ published' = s4.pub
                /\ now' = s4.clk
                /\ UNCHANGED <<pc, abort_at>>

\* The inputs a pass reads; the ones it does not read are fixed.  readings is
\* what the clock can give, ids what the draw of a robot can give.
TrnIterationAt(readings, ids) ==
    /\ variant = "timing"
    /\ pc = "loop"
    /\ elapsed_time <= Ticks(session_duration)
    /\ \E t \in readings, stop \in BOOLEAN :
          LET due == TrnDue(TrnState(t))
          IN  \E rid \in (IF due /\ robot_stop_id = -1 THEN ids ELSE {0}),
                 main \in (IF due \/ robot_stopped THEN BOOLEAN ELSE {FALSE}) :
                 \E long \in (IF robot_detected \/ (main /\ ~run_args.is_training)
                              THEN BOOLEAN ELSE {FALSE}),
                    short \in (IF robot_detected \/ (main /\ ~run_args.is_training)
                               THEN BOOLEAN ELSE {FALSE}) :
                    \E longf \in (IF long \/ short THEN BOOLEAN ELSE {FALSE}),
                       shortf \in (IF long \/ short THEN BOOLEAN ELSE {FALSE}) :
                       TrnPass(t, rid, main, long, short, longf, shortf, stop)
    /\ UNCHANGED <<trnFrame, session_duration>>

\* A pass whose clock is at most MaxSkip sample points ahead.
TrnIterationDraw(ids) == TrnIterationAt(TrnReadings, ids)

TrnIteration == TrnIterationDraw(RandInt(0, num_robots - 1))

\* The loop condition fails: reset_robots() and return.
TrnLoopExit ==
    /\ variant = "timing"
    /\ pc = "loop"
    /\ ~(elapsed_time <= Ticks(session_duration))
    /\ published' = published \o ResetRobotsDirectives
    /\ now' = now + reset_sleep
    /\ pc' = "completed"
    /\ UNCHANGED <<trnFrame, start_time, elapsed_time, session_duration, trial_index,
                   robot_state, cue_state, stop_state, robot_stop_id, robot_stopped,
                   robot_detected, trial_finished, in_trial, robot_stop_time,
                   emitted, responses, resumes, abort_at>>

-----------------------------------------------------------------------------
(* The robot controller: main() of thymio_controller_JLU_study.py ("plain") *)
(* and of thymio_controller_JLU_study_timing.py ("timing").                 *)
(* A bus message is the token list its text splits into; its topic is the   *)
(* first token.  Time is counted in half seconds.                           *)

MaxClock == 4          \* the controller's clock stops advancing here
MaxAvoid == 2          \* longest avoid duration drawn, in half seconds (at most 3)

robot_speed == 250
back_duration == 2     \* 1 s
obstacle_threshold == 1000
line_threshold == 300

NoMessage == <<"-">>   \* recv raised zmq.Again

\* detect_obstacle(prox_values, threshold=1000)
detect_obstacle(prox_values) ==
    \E i \in 1 .. Len(prox_values) : prox_values[i] > obstacle_threshold

\* detect_line(prox_values, threshold=300)
detect_line(prox_values) ==
    IF prox_values[1] < line_threshold THEN 1
    ELSE IF prox_values[2] < line_threshold THEN 2
    ELSE 0

\* prox.horizontal[:5] and prox.horizontal[-2:]
Front(h) == SubSeq(h, 1, 5)
Rear(h) == SubSeq(h, Len(h) - 1, Len(h))

\* Readings of the seven horizontal sensors: free, at the threshold in front,
\* an obstacle in front, an obstacle behind.
ProxReadings ==
    { <<0, 0, 0, 0, 0, 0, 0>>,
      <<0, 0, 1000, 0, 0, 0, 0>>,
      <<0, 1001, 0, 0, 0, 0, 0>>,
      <<0, 0, 0, 0, 0, 0, 4000>> }

\* Readings of the two ground sensors: no line, at the threshold, line on the
\* left, line on the right, line on both.
GroundReadings ==
    { <<500, 500>>, <<300, 300>>, <<299, 500>>, <<500, 299>>, <<100, 100>> }

\* random.uniform(0.5, 1.5), in half seconds
Uniform == 1 .. MaxAvoid

\* random.choice([-1, 1])
Choice == {-1, 1}

\* What the bus can offer to a controller with identifier "1": the
\* orchestrators' directives for it, for all and for another robot, commands
\* outside the vocabulary, and texts that are not two tokens.
BusMessages ==
    { NoMessage, AllOn, AllOff,
      Pause(1), Go(1), RobotOn(1),
      Pause(2), Led(0),
      <<"all", "standby">>, <<"1", "dance">>,
      <<"all">> }

\* The SUBSCRIBE options set before the loop.
Subscriptions(v, r) ==
    IF v = "plain" THEN {"all", r.robot_id} ELSE {"all", "led", r.robot_id}

\* A socket that hands over every message on the bus.
RecvUnfiltered(v, r, m) == m

\* recv(flags=zmq.NOBLOCK): the message if a subscription matches its topic.
Recv(v, r, m) == IF m[1] \in Subscriptions(v, r) THEN m ELSE NoMessage

\* The topic the loop compares with: robot_id (plain), str(robot.id) (timing).
OwnTopic(v, r) == IF v = "plain" THEN r.robot_id ELSE r.node_id

\* The led topic of the timing variant: top colour and circle.
SetLeds(r, data) ==
    IF data = "1" THEN [r EXCEPT !.leds_top = "white", !.leds_circle = "white"]
    ELSE IF data = "2" THEN [r EXCEPT !.leds_top = "green"]
    ELSE IF data = "3" THEN [r EXCEPT !.leds_top = "red"]
    ELSE IF data = "4" THEN [r EXCEPT !.leds_top = "blue"]
    ELSE [r EXCEPT !.leds_top = "off", !.leds_circle = "off"]

\* The dispatch on the topic of a two-token message.
Receive(v, r, m) ==
    LET topic == m[1]
        data == m[2]
    IN  IF topic = "all" THEN [r EXCEPT !.robot_state = data]
        ELSE IF topic = OwnTopic(v, r) THEN
            IF v = "timing" /\ data = "on" THEN [r EXCEPT !.robot_state = "on"]
            ELSE [r EXCEPT !.robot_action = data]
        ELSE IF v = "timing" /\ topic = "led" THEN SetLeds(r, data)
        ELSE r

\* Switch to avoidance: every duration and rotation the draw can give.
Avoid(r, t) ==
    { [r EXCEPT !.robot_action = "avoid", !.action_duration = d,
                !.rotation_direction = c, !.action_start_time = t] :
        d \in Uniform, c \in Choice }

Back(r, t, c) ==
    [r EXCEPT !.robot_action = "back", !.action_duration = back_duration,
              !.rotation_direction = c, !.action_start_time = t]

\* The outcomes of a step are pairs <<"ok" | "fault", locals>>; a fault is an
\* exception raised by a sensor read.
Ok(set) == {<<"ok", r>> : r \in set}
Fault(r) == <<"fault", r>>

\* The obstacle check of the go branch on the reading h of prox.horizontal.
GoObstacle(r, t, h) == IF detect_obstacle(Front(h)) THEN Avoid(r, t) ELSE {r}

\* The line check of the go branch on the reading g of prox.ground.reflected:
\* a plain `if` after the obstacle check, applied to whatever that left.
GoLine(r, t, g) ==
    LET line_detection == detect_line(g)
    IN  IF line_detection = 1 THEN Back(r, t, 1)
        ELSE IF line_detection = 2 THEN Back(r, t, -1)
        ELSE r

\* The branch for robot_action == 'go': obstacle check, then line check.
GoStep(r, t) ==
    {Fault(r)} \cup
    UNION { UNION { {Fault(r1)} \cup Ok({ GoLine(r1, t, g) : g \in GroundReadings })
                    : r1 \in GoObstacle(r, t, h) }
            : h \in ProxReadings }

\* The branch for robot_action == 'back': obstacle check behind.
BackStep(r, t) ==
    {Fault(r)} \cup
    UNION { Ok(IF detect_obstacle(Rear(h)) THEN Avoid(r, t) ELSE {r}) : h \in ProxReadings }

\* An if/elif chain whose pause branch leaves the timer alone.
ActionStepPauseKeepsTimer(r, t) ==
    IF r.robot_action = "stop" THEN Ok({[r EXCEPT !.robot_action = "go"]})
    ELSE IF r.robot_action = "pause" THEN Ok({r})
    ELSE IF r.robot_action = "go" THEN GoStep(r, t)
    ELSE IF r.robot_action = "back" THEN BackStep(r, t)
    ELSE Ok({r})

\* The if/elif chain on robot_action under robot_state == 'on'.
ActionStep(r, t) ==
    IF r.robot_action = "stop" THEN Ok({[r EXCEPT !.robot_action = "go"]})
    ELSE IF r.robot_action = "pause" THEN Ok({[r EXCEPT !.action_duration = 0]})
    ELSE IF r.robot_action = "go" THEN GoStep(r, t)
    ELSE IF r.robot_action = "back" THEN BackStep(r, t)
    ELSE Ok({r})

\* A time limit after which every action, back included, resumes go.
TimerStepBackToGo(r, t) ==
    IF r.action_duration > 0 /\ t - r.action_start_time > r.action_duration
    THEN { [r EXCEPT !.robot_action = "go", !.action_duration = 0] }
    ELSE {r}

\* The action has a live timer and t is past its duration.
Elapsed(r, t) == r.action_duration > 0 /\ t - r.action_start_time > r.action_duration

\* The check of the action's time limit.
TimerStep(r, t) ==
    IF Elapsed(r, t)
    THEN IF r.robot_action = "back"
         THEN { [r EXCEPT !.robot_action = "avoid", !.action_duration = d,
                          !.action_start_time = t] : d \in Uniform }
         ELSE { [r EXCEPT !.robot_action = "go", !.action_duration = 0] }
    ELSE {r}

OnStep(r, t) ==
    UNION { IF o[1] = "fault" THEN {o} ELSE Ok(TimerStep(o[2], t)) : o \in ActionStep(r, t) }

\* A controller whose off state leaves the action alone.
StateStepKeepsAction(r, t) ==
    IF r.robot_state = "on" THEN OnStep(r, t) ELSE Ok({r})

\* "Handle the robot's state and determine actions".
StateStep(r, t) ==
    IF r.robot_state = "off" THEN Ok({[r EXCEPT !.robot_action = "stop"]})
    ELSE IF r.robot_state = "on" THEN OnStep(r, t)
    ELSE Ok({r})

SetMotors(r, left, right) ==
    [r EXCEPT !.motor_left_target = left, !.motor_right_target = right]

\* Motor targets that are written for go, avoid and back only.
MotorsCoastOnStop(r) ==
    IF r.robot_action = "go" THEN SetMotors(r, robot_speed, robot_speed)
    ELSE IF r.robot_action = "avoid"
         THEN SetMotors(r, r.rotation_direction * robot_speed,
                           -r.rotation_direction * robot_speed)
    ELSE IF r.robot_action = "back" THEN SetMotors(r, -robot_speed, -robot_speed)
    ELSE r

\* "Execute the robot's current action based on the state".
Motors(r) ==
    IF r.robot_action = "go" THEN SetMotors(r, robot_speed, robot_speed)
    ELSE IF r.robot_action = "avoid"
         THEN SetMotors(r, r.rotation_direction * robot_speed,
                           -r.rotation_direction * robot_speed)
    ELSE IF r.robot_action = "back" THEN SetMotors(r, -robot_speed, -robot_speed)
    ELSE IF r.robot_action \in {"stop", "pause"} THEN SetMotors(r, 0, 0)
    ELSE r

\* The action makes the loop write the motor targets.
WritesMotors(r) == r.robot_action \in {"go", "avoid", "back", "stop", "pause"}

\* An except clause that stops the left motor only.
HaltedLeftOnly(r) == [r EXCEPT !.motor_left_target = 0]

\* The except clauses: both motor targets to 0.
Halted(r) == SetMotors(r, 0, 0)

\* The locals before the loop; the motor targets and leds are the robot's.
Boot(id, node, speed) ==
    [ robot_id |-> id, node_id |-> node,
      robot_state |-> "off", robot_action |-> "stop",
      action_start_time |-> 0, action_duration |-> 0, rotation_direction |-> 0,
      motor_left_target |-> speed, motor_right_target |-> speed,
      leds_top |-> "off", leds_circle |-> "off" ]

ThymioIdle ==
    /\ thymio = Boot("1", "1", 0)
    /\ thymio_pc = "boot"
    /\ thymio_clock = 0
    /\ delivered = NoMessage
    /\ repeated = FALSE
    /\ timer_due = "none"
    /\ exit_cause = "none"
    /\ bus_read = 0

\* Lines 49-76 (timing) / 51-79 (plain): connect and enter the loop.  The node
\* identifier of the robot need not be the identifier given on the command
\* line; the motors have the targets they were left with.  The socket gets
\* nothing of what was published before it connected.
ThymioStartAs(nodes) ==
    /\ thymio_pc = "boot"
    /\ \E node \in nodes, speed \in {0, robot_speed} :
          thymio' = Boot("1", node, speed)
    /\ thymio_pc' = "ready"
    /\ bus_read' = Len(published)
    /\ UNCHANGED <<thymio_clock, delivered, repeated, timer_due, exit_cause, genVars, sessVars>>

ThymioStart == ThymioStartAs({"1", "7"})

\* The except Exception clause: the loop is left with the motors at 0.
Exited(r, cause) == <<"exited", Halted(r), cause>>

\* The outcomes <<position, locals, cause of the exit>> of one pass of the
\* while loop at time t, bus being the message the bus has for the socket
\* (NoMessage if none).  recv() or a write to the leds can raise; the unpacking
\* of a message that is not two tokens raises ValueError; a sensor read in the
\* state handling and a write to the motors can raise.
PassResults(v, r, bus, t) ==
    LET m == Recv(v, r, bus)
    IN  {Exited(r, "bus")} \cup
        IF m # NoMessage /\ Len(m) # 2
        THEN {Exited(r, "message")}
        ELSE UNION { IF o[1] = "fault"
                     THEN {Exited(o[2], "sensor")}
                     ELSE {<<"loop", Motors(o[2]), "none">>} \cup
                          IF WritesMotors(o[2]) THEN {Exited(o[2], "motor")} ELSE {}
                     : o \in StateStep(IF m = NoMessage THEN r ELSE Receive(v, r, m), t) }

\* One pass of the while loop, d after the last one.
ThymioPass(bus, d) ==
    /\ thymio_pc \in {"ready", "loop"}
    /\ thymio_clock + d <= MaxClock
    /\ thymio_clock' = thymio_clock + d
    /\ delivered' = bus
    /\ repeated' = (thymio_pc = "loop" /\ bus = delivered)
    /\ timer_due' = IF Elapsed(thymio, thymio_clock + d) THEN thymio.robot_action ELSE "none"
    /\ \E o \in PassResults(variant, thymio, bus, thymio_clock + d) :
          /\ thymio_pc' = o[1]
          /\ thymio' = o[2]
          /\ exit_cause' = o[3]

\* A pass with whatever the bus can offer.
ThymioTickFrom(msgs) ==
    /\ \E bus \in msgs, d \in {0, 1} : ThymioPass(bus, d)
    /\ UNCHANGED <<genVars, sessVars, bus_read>>

ThymioTick == ThymioTickFrom(BusMessages)

\* A pass of a controller on the bus of a session: it is offered the next
\* directive the session has published, or nothing.
ThymioTickOnBus ==
    /\ \E d \in {0, 1} :
          \/ /\ bus_read < Len(published)
             /\ ThymioPass(published[bus_read + 1], d)
             /\ bus_read' = bus_read + 1
          \/ /\ ThymioPass(NoMessage, d)
             /\ UNCHANGED bus_read
    /\ UNCHANGED <<genVars, sessVars>>

\* KeyboardInterrupt
ThymioInterrupt ==
    /\ thymio_pc \in {"ready", "loop"}
    /\ thymio' = Halted(thymio)
    /\ thymio_pc' = "exited"
    /\ exit_cause' = "interrupt"
    /\ UNCHANGED <<thymio_clock, delivered, repeated, timer_due, bus_read, genVars, sessVars>>

-----------------------------------------------------------------------------
(* Specifications.                                                         *)

\* generate_trials alone.
InitGen == GenIdle /\ SessIdle("plain") /\ ThymioIdle
NextGen ==
    \/ GenStart /\ UNCHANGED <<sessVars, robotVars>>
    \/ GenShuffleStep /\ UNCHANGED <<sessVars, robotVars>>
    \/ GenAppendCombination /\ UNCHANGED <<sessVars, robotVars>>
    \/ GenAppendDefault /\ UNCHANGED <<sessVars, robotVars>>
    \/ GenIndexError /\ UNCHANGED <<sessVars, robotVars>>
    \/ GenReturn /\ UNCHANGED <<sessVars, robotVars>>
SpecGen == InitGen /\ [][NextGen]_vars

\* One session of either orchestrator.
Init == GenIdle /\ ThymioIdle /\ \E v \in {"plain", "timing"} : SessIdle(v)
Next ==
    \/ ExpCall /\ UNCHANGED robotVars
    \/ TrnCall /\ UNCHANGED robotVars
    \/ SessGenerate
    \/ SessGenRaise /\ UNCHANGED robotVars
    \/ ExpSetup /\ UNCHANGED robotVars
    \/ ExpIteration /\ UNCHANGED robotVars
    \/ TrnSetup /\ UNCHANGED robotVars
    \/ TrnIteration /\ UNCHANGED robotVars
    \/ TrnLoopExit /\ UNCHANGED robotVars
Spec == Init /\ [][Next]_vars

\* main(), line 274: run_experiment(duration=180, cue=[2]), up to the start of
\* the loop.  The interval draws are restricted to the two ends of the range
\* (every run of this specification is a run of the program; the 5^14 other
\* draws give timelines of the same length).
TactileRun == RunArgs(FALSE, FALSE, 0, 180, <<2>>, default_effect_types)
RandIntEnds(a, b) == {a, b}
GenAppendDefaultEnds ==
    GenAppendDefaultDraw(RandIntEnds(gen_args.min_interval, gen_args.max_interval))
ExpCallTactile == ExpCallFrom({TactileRun})
NextTactile ==
    \/ ExpCallTactile /\ UNCHANGED robotVars
    \/ pc = "gen" /\ GenAppendDefaultEnds /\ UNCHANGED <<sessVars, robotVars>>
    \/ pc = "gen" /\ GenReturn /\ UNCHANGED <<sessVars, robotVars>>
    \/ ExpSetup /\ UNCHANGED robotVars
SpecTactile == InitGen /\ [][NextTactile]_vars

\* One session of the timing orchestrator in each of its three modes, two
\* trials each: training and test as main() calls them with one repetition,
\* the full experiment with the two cue types of main() and one effect level.
\* The per-trial draw of a robot gives the first, a middle or the last robot.
ModeInputs ==
    { RunArgs(TRUE, FALSE, 1, 0, <<0>>, <<0, 6>>),
      RunArgs(FALSE, TRUE, 1, 0, <<0>>, <<0, 6>>),
      RunArgs(FALSE, FALSE, 1, 0, <<0, 2>>, <<3>>) }
SomeRobots == {0, num_robots \div 2, num_robots - 1}
TrnCallModes == TrnCallFrom(ModeInputs)
TrnIterationSome == TrnIterationDraw(SomeRobots)
InitModes == GenIdle /\ ThymioIdle /\ SessIdle("timing")
NextModes ==
    \/ TrnCallModes /\ UNCHANGED robotVars
    \/ SessGenerate
    \/ TrnSetup /\ UNCHANGED robotVars
    \/ TrnIterationSome /\ UNCHANGED robotVars
    \/ TrnLoopExit /\ UNCHANGED robotVars
SpecModes == InitModes /\ [][NextModes]_vars

\* A timing session in a single-robot mode (training or test, one trial) that
\* selects the first or the last robot, and the controller of another robot,
\* robot 1, on its bus; the controller connects at any moment.
SingleInputs ==
    { RunArgs(TRUE, FALSE, 1, 0, <<0>>, <<0>>),
      RunArgs(FALSE, TRUE, 1, 0, <<0>>, <<6>>) }
TrnCallSingle == TrnCallFrom(SingleInputs)
TrnSetupSingle == TrnSetupDraw({0, num_robots - 1})
ThymioStartOne == ThymioStartAs({"1"})
NextSingle ==
    \/ TrnCallSingle /\ UNCHANGED robotVars
    \/ SessGenerate
    \/ TrnSetupSingle /\ UNCHANGED robotVars
    \/ TrnIteration /\ UNCHANGED robotVars
    \/ TrnLoopExit /\ UNCHANGED robotVars
    \/ ThymioStartOne
    \/ ThymioTickOnBus
    \/ ThymioInterrupt
SpecSingle == InitModes /\ [][NextSingle]_vars

\* One robot controller of either variant.
InitRobot == Init
NextRobot ==
    \/ ThymioStart
    \/ ThymioTick
    \/ ThymioInterrupt
SpecRobot == InitRobot /\ [][NextRobot]_vars

-----------------------------------------------------------------------------
(* Properties of generate_trials (checked under SpecGen).                  *)

Returned == gen_pc = "done"

\* C1: every returned timeline starts at start_offset, has strictly increasing
\* offsets, and every gap between consecutive trials is an integer of
\* [min_interval, max_interval].
C1_OffsetsLaw ==
    Returned =>
        /\ Len(trials) > 0 => trials[1][1] = gen_args.start_offset
        /\ \A i \in 1 .. Len(trials) - 1 :
              /\ trials[i][1] < trials[i + 1][1]
              /\ trials[i + 1][1] - trials[i][1] \in Int
              /\ trials[i + 1][1] - trials[i][1] >= gen_args.min_interval
              /\ trials[i + 1][1] - trials[i][1] <= gen_args.max_interval

\* A returned timeline of at least three trials whose gaps differ.
C1_Witness ==
    /\ Returned
    /\ Len(trials) >= 3
    /\ gen_args.min_interval < gen_args.max_interval
    /\ trials[2][1] - trials[1][1] = gen_args.min_interval
    /\ trials[3][1] - trials[2][1] = gen_args.max_interval

\* Number of positions of list holding x.
Count(list, x) == Cardinality({i \in 1 .. Len(list) : list[i] = x})

Pairs(ts) == [i \in 1 .. Len(ts) |-> <<ts[i][2], ts[i][3]>>]

\* C2: for num_rep > 0 the (cue, effect) pairs of the returned timeline are, as a
\* multiset, num_rep copies of cue_types x effect_types; its length is
\* num_rep * |cue_types| * |effect_types| and it is non-empty when both are.
C2_ContentIsProduct ==
    (Returned /\ gen_args.num_rep > 0) =>
        /\ \A c \in 0 .. 6, e \in 0 .. 6 :
              Count(Pairs(trials), <<c, e>>) =
                  gen_args.num_rep * Count(gen_args.cue_types, c) * Count(gen_args.effect_types, e)
        /\ Len(trials) = gen_args.num_rep * Len(gen_args.cue_types) * Len(gen_args.effect_types)
        /\ (Len(gen_args.cue_types) > 0 /\ Len(gen_args.effect_types) > 0) => Len(trials) > 0
        /\ (gen_args.num_rep = 2 /\ gen_args.cue_types = <<0, 1>> /\ gen_args.effect_types = <<0, 1>>)
              => Len(trials) = 8

\* The 8-trial example, returned in an order the shuffle changed.
C2_Witness ==
    /\ Returned
    /\ gen_args.num_rep = 2
    /\ gen_args.cue_types = <<0, 1>>
    /\ gen_args.effect_types = <<0, 1>>
    /\ Len(trials) = 8
    /\ Pairs(trials) # ListTimes(Combinations(<<0, 1>>, <<0, 1>>), 2)

\* floor(x / mean(min_interval, max_interval)) for x = duration - start - end.
FloorOverMean(a) ==
    (2 * (a.duration - a.start_offset - a.min_end_offset)) \div (a.max_interval + a.min_interval)

\* C3: for num_rep = 0 the returned timeline has floor((duration - start_offset -
\* end_offset) / mean interval) trials when that is positive and none otherwise,
\* all with the first cue of cue_types and one common effect level.
C3_DurationDriven ==
    (Returned /\ gen_args.num_rep = 0) =>
        /\ Len(trials) = IF FloorOverMean(gen_args) > 0 THEN FloorOverMean(gen_args) ELSE 0
        /\ \A i \in 1 .. Len(trials) :
              /\ trials[i][2] = gen_args.cue_types[1]
              /\ trials[i][3] = trials[1][3]

\* A duration-driven timeline of several trials, from a list of two cues.
C3_Witness ==
    /\ Returned
    /\ gen_args.num_rep = 0
    /\ Len(gen_args.cue_types) = 2
    /\ Len(trials) >= 3

\* A duration-driven call whose quotient is negative returns no trial.
C3_WitnessEmpty ==
    /\ Returned
    /\ gen_args.num_rep = 0
    /\ FloorOverMean(gen_args) < 0
    /\ trials = << >>

-----------------------------------------------------------------------------
(* Properties of the orchestrator sessions.                                *)

\* C4 (checked under SpecTactile): the session started by
\* run_experiment(duration=180, cue=[2]) runs a timeline of
\* floor((180 - start_offset - end_offset) / mean interval) trials, with the
\* session's own start_offset and end_offset.
C4_TactileLength ==
    (pc = "loop" /\ run_args = TactileRun) =>
        Len(trials) = (2 * (180 - start_offset - end_offset)) \div (min_interval + max_interval)

\* Positions of published holding directive m.
Sent(m) == {i \in 1 .. Len(published) : published[i] = m}

\* Positions of published holding an activation ("all on" or "<id> on").
Activations == {i \in 1 .. Len(published) : published[i][2] = "on"}

\* C5 as claimed: a session that completed (not aborted) has published exactly
\* one (all, off).
C5_ExactlyOneAllOff == pc = "completed" => Cardinality(Sent(AllOff)) = 1

\* C5, amended: a session that completed has published exactly one (all, off)
\* in the non-timing variant and exactly two in the timing variant (one by the
\* reset at its start, one at its end); in both exactly one follows the
\* activation.
C5_AllOffCount ==
    pc = "completed" =>
        /\ Cardinality(Sent(AllOff)) = IF variant = "plain" THEN 1 ELSE 2
        /\ Cardinality(Activations) = 1
        /\ \A a \in Activations : Cardinality({i \in Sent(AllOff) : i > a}) = 1

\* A timing session that completed after resolving both of its trials.
C5_Witness ==
    /\ pc = "completed"
    /\ variant = "timing"
    /\ Len(trials) = 2
    /\ trial_index = 2

\* A non-timing session that completed after resolving both of its trials.
C5_WitnessPlain ==
    /\ pc = "completed"
    /\ variant = "plain"
    /\ Len(trials) = 2
    /\ trial_index = 2

\* C6: a session that saw the stop button has published (all, off) after seeing
\* it and no pause, go or on directive after seeing it, in whatever sub-state
\* the button was seen.
C6_AbortPublishesOff ==
    pc = "aborted" =>
        /\ abort_at >= 0
        /\ \E i \in abort_at + 1 .. Len(published) : published[i] = AllOff
        /\ \A i \in abort_at + 1 .. Len(published) : published[i][2] \notin {"pause", "go", "on"}

\* Stopped while awaiting the response (timing variant).
C6_Witness == pc = "aborted" /\ variant = "timing" /\ robot_detected

\* Stopped while awaiting detection (timing variant).
C6_WitnessAwaitingDetection == pc = "aborted" /\ variant = "timing" /\ robot_stopped

\* Stopped while a robot is paused (non-timing variant).
C6_WitnessPaused == pc = "aborted" /\ variant = "plain" /\ robot_state = 1

\* Stopped with the cue emitted and no pause yet (non-timing variant).
C6_WitnessCueEmitted == pc = "aborted" /\ variant = "plain" /\ cue_emitted /\ robot_state = 0

\* Stopped between trials, in either variant.
C6_WitnessIdlePlain ==
    pc = "aborted" /\ variant = "plain" /\ trial_index = 1 /\ ~cue_emitted /\ Len(trials) = 2
C6_WitnessIdleTiming ==
    pc = "aborted" /\ variant = "timing" /\ trial_index = 1 /\ ~in_trial /\ Len(trials) = 2

\* C7: a session whose generated timeline is empty does not raise an error and
\* publishes no pause and no go.
C7_EmptyTimelineIsValid ==
    (gen_pc = "done" /\ trials = << >>) =>
        /\ pc # "raised"
        /\ \A i \in 1 .. Len(published) : published[i][2] \notin {"pause", "go"}

\* The non-timing duration path, where the empty timeline is run to completion.
C7_PlainDurationCompletes ==
    pc = "completed" /\ variant = "plain" /\ trials = << >> /\ run_args.num_rep = 0

\* The feedback directives of response r: what was published after the
\* response was read, up to the led-off that closes the trial.
RECURSIVE UpToLedOff(_)
UpToLedOff(i) ==
    IF i > Len(published) \/ published[i] = Led(0) THEN << >>
    ELSE <<published[i]>> \o UpToLedOff(i + 1)
FeedbackOf(r) == UpToLedOff(r[4] + 1)

Correct == Led(2)
Incorrect == Led(3)

\* C10: in a response window of the timing variant, at effect level 0 a short
\* response gives the correct feedback (led 2) and a long one the incorrect
\* feedback (led 3); at effect level 6 a long response gives the correct and a
\* short one the incorrect feedback.  A response is the button the feedback
\* code reads as pressed; with one button read as pressed its feedback is the
\* only one, and no feedback is published for a button not read as pressed.
C10_SymmetricFeedback ==
    \A k \in 1 .. Len(responses) :
        LET r == responses[k]
            effect == r[1]
            long == r[2]
            short == r[3]
            fb == FeedbackOf(r)
            Has(m) == \E i \in 1 .. Len(fb) : fb[i] = m
        IN  /\ (effect = 0 /\ short) => Has(Correct)
            /\ (effect = 0 /\ long) => Has(Incorrect)
            /\ (effect = 6 /\ long) => Has(Correct)
            /\ (effect = 6 /\ short) => Has(Incorrect)
            /\ (effect = 0 /\ short /\ ~long) => fb = <<Correct>>
            /\ (effect = 0 /\ long /\ ~short) => fb = <<Incorrect>>
            /\ (effect = 6 /\ long /\ ~short) => fb = <<Correct>>
            /\ (effect = 6 /\ short /\ ~long) => fb = <<Incorrect>>
            /\ (~long /\ ~short) => fb = << >>

\* A test session with a short response at level 0 and a long response at level 6.
C10_Witness ==
    /\ variant = "timing"
    /\ \E i, j \in 1 .. Len(responses) :
          /\ responses[i][1] = 0 /\ responses[i][3] /\ ~responses[i][2]
          /\ responses[j][1] = 6 /\ responses[j][2] /\ ~responses[j][3]

\* The mirrored pair: a long response at level 0 and a short response at level 6.
C10_WitnessWrong ==
    /\ variant = "timing"
    /\ \E i, j \in 1 .. Len(responses) :
          /\ responses[i][1] = 0 /\ responses[i][2] /\ ~responses[i][3]
          /\ responses[j][1] = 6 /\ responses[j][3] /\ ~responses[j][2]

-----------------------------------------------------------------------------
(* Properties of the robot controller (checked under SpecRobot).           *)

Stopped(r) ==
    /\ r.robot_action = "stop"
    /\ r.motor_left_target = 0
    /\ r.motor_right_target = 0

\* C8: in both controllers, at the end of every pass of the loop (completed,
\* or ended by the except clause) in which the directive state is off, the
\* action is stop and both motor targets are 0, whatever the action, timer and
\* sensor readings were before and whatever was received in the pass.
C8_OffMeansStopped ==
    (thymio_pc \in {"loop", "exited"} /\ thymio.robot_state = "off") => Stopped(thymio)

\* A pass with directive state off that received a pause on the own topic,
\* the controller having been switched off in the middle of a maneuver (its
\* timer is still set).
C8_Witness ==
    /\ thymio_pc = "loop"
    /\ thymio.robot_state = "off"
    /\ delivered = Pause(1)
    /\ thymio.node_id = thymio.robot_id
    /\ thymio.action_duration > 0
    /\ Stopped(thymio)

\* C9: when two passes in a row are offered (all, off), the controller is off,
\* stopped and with motors (0, 0) after the first and the second changes
\* nothing.
C9_AllOffIdempotent ==
    [][(thymio_pc = "loop" /\ delivered = AllOff /\ thymio_pc' = "loop" /\ delivered' = AllOff)
         => (thymio.robot_state = "off" /\ Stopped(thymio) /\ thymio' = thymio)]_vars

\* After the second of two (all, off) in a row, the first of which switched
\* the controller off in the middle of a maneuver.
C9_Witness ==
    /\ thymio_pc = "loop"
    /\ delivered = AllOff
    /\ repeated
    /\ thymio.action_duration > 0
    /\ thymio.robot_state = "off"
    /\ Stopped(thymio)

-----------------------------------------------------------------------------
(* Properties of the sessions' trial bookkeeping (checked under Spec).     *)

\* The emissions recorded for the trial with 0-based index i.
EmissionsOf(i) == {k \in 1 .. Len(emitted) : emitted[k][1] = i}

\* C11: in both variants each trial's cue is emitted at most once, exactly once
\* for every trial the trial index has advanced past, and an emission happens
\* only for the current trial in a pass whose elapsed time has reached that
\* trial's offset.
C11_CueOncePerTrial ==
    /\ [](\A i \in 0 .. Len(trials) - 1 :
             /\ Cardinality(EmissionsOf(i)) <= 1
             /\ i < trial_index => Cardinality(EmissionsOf(i)) = 1)
    /\ [][emitted' # emitted =>
            /\ trial_index < Len(trials)
            /\ emitted' = Append(emitted, <<trial_index, trials[trial_index + 1][2]>>)
            /\ elapsed_time' >= Ticks(trials[trial_index + 1][1])]_vars

\* A non-timing session that has resolved two trials, each cued once.
C11_Witness ==
    /\ variant = "plain"
    /\ trial_index = 2
    /\ Len(emitted) = 2

\* A timing session that has resolved two trials, each cued once.
C11_WitnessTiming ==
    /\ variant = "timing"
    /\ trial_index = 2
    /\ Len(emitted) = 2

\* A session stopped with the current trial cued and not resolved.
C11_WitnessUnresolved ==
    /\ pc = "aborted"
    /\ Len(emitted) = trial_index + 1

\* A pass of the non-timing loop that stays in the loop, with the current
\* trial cued, no robot paused (robot_state 0) and the elapsed time of the pass
\* at or past offset + stop_offset.
PauseIsDue ==
    /\ variant = "plain"
    /\ pc = "loop"
    /\ pc' = "loop"
    /\ trial_index < Len(trials)
    /\ cue_emitted
    /\ robot_state = 0
    /\ elapsed_time' >= Ticks(trials[trial_index + 1][1]) + stop_offset

\* The pass selects a robot in 0 .. num_robots - 1, publishes its pause and
\* records it as paused.
PausesOneRobot ==
    \E id \in 0 .. num_robots - 1 :
        /\ published' = Append(published, Pause(id))
        /\ robot_stop_id' = id
        /\ robot_state' = 1

\* C12 as claimed: in the non-timing variant, for every trial whatever its cue
\* type and effect level, the pass in which the pause is due selects a robot
\* in 0 .. num_robots - 1, publishes (robot_id, pause) and records it paused.
C12_PauseEveryTrial == [][PauseIsDue => PausesOneRobot]_vars

\* C12, amended: this holds for the trials of effect level 1; for a trial of
\* any other effect level the pass publishes nothing, sets the paused
\* identifier to none (-1) and the robot state to 2.
C12_PauseWhenEffectOne ==
    [][PauseIsDue =>
         IF trials[trial_index + 1][3] = 1
         THEN PausesOneRobot
         ELSE /\ published' = published
              /\ robot_stop_id' = -1
              /\ robot_state' = 2]_vars

\* The pause of a trial of effect level 1 just published, for the last robot.
C12_Witness ==
    /\ variant = "plain"
    /\ pc = "loop"
    /\ robot_state = 1
    /\ trial_index < Len(trials)
    /\ trials[trial_index + 1][3] = 1
    /\ robot_stop_id = num_robots - 1
    /\ published[Len(published)] = Pause(num_robots - 1)

\* The pause step of a trial of effect level 0 taken: nothing paused.
C12_WitnessNoPause ==
    /\ variant = "plain"
    /\ pc = "loop"
    /\ robot_state = 2
    /\ trial_index < Len(trials)
    /\ trials[trial_index + 1][3] = 0
    /\ robot_stop_id = -1

\* The robot of the last pause directive published, -1 if there is none.
LastPaused ==
    LET P == {k \in 1 .. Len(published) : published[k][2] = "pause"}
    IN  IF P = {} THEN -1
        ELSE LET k == CHOOSE x \in P : \A y \in P : y <= x
             IN  CHOOSE id \in 0 .. num_robots : Pause(id) = published[k]

\* A pass of the non-timing loop that takes the resume branch.
ResumeStep ==
    /\ variant = "plain"
    /\ pc = "loop"
    /\ trial_index' # trial_index

\* What the resume step does apart from the paused identifier: it is taken
\* only at or past offset + stop_offset + stop_duration, publishes the go of
\* the robot paused for the trial (nothing if none was), advances the trial
\* index by one and resets the cue-emitted flag.
ResumeEffects ==
    /\ elapsed_time' >= Ticks(trials[trial_index + 1][1]) + stop_offset + Ticks(robot_stop_duration)
    /\ published' = IF robot_state = 1 THEN Append(published, Go(LastPaused)) ELSE published
    /\ trial_index' = trial_index + 1
    /\ cue_emitted' = FALSE

\* C13: in the non-timing variant the resume step publishes (robot_id, go) to
\* exactly the robot paused for the trial, leaves the paused-robot identifier
\* cleared to none (-1), advances the trial index by one and resets the
\* cue-emitted flag.
C13_ResumeClearsPaused ==
    [][ResumeStep => (ResumeEffects /\ robot_stop_id' = -1)]_vars

\* The resume step without the clearing of the identifier.
C13_ResumeKeepsPaused ==
    [][ResumeStep => (ResumeEffects /\ robot_stop_id' = robot_stop_id)]_vars

\* A trial of effect level 1 resumed: its go is the last directive and the
\* paused identifier still names the robot.
C13_WitnessStale ==
    /\ variant = "plain"
    /\ pc = "loop"
    /\ trial_index > 0
    /\ robot_state = 0
    /\ robot_stop_id >= 0
    /\ published[Len(published)] = Go(robot_stop_id)

\* C14: in the timing variant, in every pass of the loop that starts inside a
\* trial (from the pass after the one in which the trial became due, up to and
\* including the pass that resolves it) the elapsed-time value does not change,
\* however far the clock has advanced.
C14_ElapsedFrozen ==
    [][(variant = "timing" /\ pc = "loop" /\ in_trial) => elapsed_time' = elapsed_time]_vars

\* Inside the response window, with the clock a full polling step and the
\* confirmation sleep past the pause, the elapsed time still at its value of
\* the pass in which the trial became due.
C14_Witness ==
    /\ variant = "timing"
    /\ pc = "loop"
    /\ in_trial
    /\ robot_detected
    /\ now - robot_stop_time >= 10 * MaxWaitStep + SleepTicks(0)
    /\ elapsed_time = robot_stop_time - start_time

\* A trial just resolved after time passed in its window: the elapsed time is
\* the frozen one.
C14_WitnessResolved ==
    /\ variant = "timing"
    /\ pc = "loop"
    /\ ~in_trial
    /\ trial_index > 0
    /\ elapsed_time = Ticks(trials[trial_index][1])
    /\ now - start_time = elapsed_time
    /\ Len(responses) > 0

\* C15: in the timing variant, the pass that resolves a trial advances the
\* clock baseline by exactly the clock time since the pause was issued; so
\* outside a trial the elapsed time is the clock minus the baseline (the
\* frozen value when the trial has just been resolved, plus only the time
\* passed outside windows later), and the elapsed time never decreases.
C15_BaselineCompensated ==
    /\ []((variant = "timing" /\ pc = "loop" /\ ~in_trial) => elapsed_time = now - start_time)
    /\ []((variant = "timing" /\ pc = "loop" /\ in_trial) =>
             elapsed_time = robot_stop_time - start_time)
    /\ [][(variant = "timing" /\ pc = "loop" /\ pc' = "loop") =>
            /\ elapsed_time' >= elapsed_time
            /\ trial_index' # trial_index => start_time' - start_time = now' - robot_stop_time'
            /\ trial_index' = trial_index => start_time' = start_time]_vars

\* After a trial resolved with a polling step and the confirmation sleep spent
\* in its window, a later pass has measured an elapsed time past its offset.
C15_Witness ==
    /\ variant = "timing"
    /\ pc = "loop"
    /\ ~in_trial
    /\ trial_index >= 1
    /\ start_time >= reset_sleep + 10 * MaxWaitStep + SleepTicks(0)
    /\ elapsed_time > Ticks(trials[trial_index][1])

-----------------------------------------------------------------------------
(* Properties of the timing sessions' robot (checked under SpecModes).     *)

\* Positions of published holding a pause or a go.
PauseGo == {k \in 1 .. Len(published) : published[k][2] \in {"pause", "go"}}

\* C16 as claimed: in every timing session, of whatever mode, all pause and go
\* directives are addressed to one and the same robot.
C16_OneRobotPerSession ==
    \A i, j \in PauseGo : published[i][1] = published[j][1]

\* C16, amended: in training and test mode all pause and go directives are
\* addressed to the robot chosen once at the start of the session (the one of
\* its "<id> on"); in the full-experiment mode a robot is drawn for every
\* trial, and each go is addressed to the robot of the pause before it.
C16_RobotPerSessionOrTrial ==
    (variant = "timing" /\ pc \in {"loop", "completed", "aborted"}) =>
        IF run_args.is_training \/ run_args.is_test
        THEN /\ robot_stop_id \in 0 .. num_robots - 1
             /\ Cardinality({k \in 1 .. Len(published) : published[k] = RobotOn(robot_stop_id)}) = 1
             /\ \A i \in PauseGo : published[i][1] = Str(robot_stop_id)
        ELSE \A i \in PauseGo :
                published[i][2] = "go" =>
                    /\ i - 1 \in PauseGo
                    /\ published[i - 1] = <<published[i][1], "pause">>

\* A full-experiment session whose two trials paused and resumed the first and
\* the last robot.
C16_Witness ==
    /\ ~run_args.is_training /\ ~run_args.is_test
    /\ trial_index = 2
    /\ \E i, j \in PauseGo :
          /\ i < j
          /\ published[i] = Go(0)
          /\ published[j] = Go(num_robots - 1)

\* A test session whose two trials paused and resumed the robot of the session.
C16_WitnessTest ==
    /\ run_args.is_test
    /\ trial_index = 2
    /\ Cardinality(PauseGo) = 4

-----------------------------------------------------------------------------
(* Properties of a single-robot session and the controller of a robot it  *)
(* did not select (checked under SpecSingle).                             *)

\* The session of the state is in a single-robot mode and selected a robot
\* other than the controller's.
OtherSelected ==
    /\ pc \in {"loop", "completed", "aborted"}
    /\ run_args.is_training \/ run_args.is_test
    /\ Str(robot_stop_id) # thymio.robot_id

\* C17: in the single-robot modes of the timing variant, the controller of a
\* robot that was not selected has directive state off, action stop and motors
\* (0, 0) at the end of every pass of its loop, from the start of the session
\* to its end, whatever the session published and whenever the controller
\* connected.
C17_OthersInert ==
    /\ (thymio_pc \in {"loop", "exited"} /\ pc \in {"main", "gen", "raised"}) =>
          (thymio.robot_state = "off" /\ Stopped(thymio))
    /\ (thymio_pc \in {"loop", "exited"} /\ OtherSelected) =>
          (thymio.robot_state = "off" /\ Stopped(thymio))

\* The session has completed its trial with the last robot, and the controller
\* of robot 1, connected before the session's reset, has been through every
\* directive of the session, the on, the pause and the go of the last robot
\* included.
C17_Witness ==
    /\ OtherSelected
    /\ pc = "completed"
    /\ trial_index = 1
    /\ thymio_pc = "loop"
    /\ bus_read = Len(published)
    /\ \E i, j, k \in 1 .. Len(published) :
          /\ published[i] = RobotOn(num_robots - 1)
          /\ published[j] = Pause(num_robots - 1)
          /\ published[k] = Go(num_robots - 1)
    /\ delivered = Led(0)
    /\ thymio.robot_state = "off"
    /\ Stopped(thymio)

-----------------------------------------------------------------------------
(* Properties of the robot controller's message handling, faults and      *)
(* timers (checked under SpecRobot).                                      *)

\* The commands of the all topic and of a robot's topic.
Commands == {"on", "off", "pause", "go"}

\* The socket of controller r receives bus, and bus is not two tokens or
\* carries, on the all topic or on the robot's topic, a command outside the
\* vocabulary.
Malformed(v, r, bus) ==
    LET m == Recv(v, r, bus)
    IN  /\ m # NoMessage
        /\ \/ Len(m) # 2
           \/ m[1] \in {"all", r.robot_id} /\ m[2] \notin Commands

\* The step is a pass of the loop (not an interrupt, not the start).
IsPass ==
    /\ thymio_pc \in {"ready", "loop"}
    /\ thymio_pc' \in {"loop", "exited"}
    /\ exit_cause' # "interrupt"

\* C18: a pass of the loop that receives a malformed directive ends as a pass
\* that received nothing can end: same directive state, action, timer and
\* motor targets, and the loop is not left because of the message.
C18_MalformedIgnored ==
    [][ (IsPass /\ Malformed(variant, thymio, delivered')) =>
           <<thymio_pc', thymio', exit_cause'>>
               \in PassResults(variant, thymio, NoMessage, thymio_clock') ]_vars

\* C19: when the loop has exited because of a fault (the bus receive, the
\* unpacking of the message, a sensor read, a motor write), both motor targets
\* are 0, whatever the action was.
C19_FaultStopsMotors ==
    (thymio_pc = "exited" /\ exit_cause # "interrupt") =>
        (thymio.motor_left_target = 0 /\ thymio.motor_right_target = 0)

\* A sensor read has raised while the robot was backing off a line.
C19_Witness ==
    /\ thymio_pc = "exited"
    /\ exit_cause = "sensor"
    /\ thymio.robot_state = "on"
    /\ thymio.robot_action = "back"
    /\ thymio.motor_left_target = 0
    /\ thymio.motor_right_target = 0

\* A motor write has raised while the robot was turning.
C19_WitnessMotor ==
    /\ thymio_pc = "exited"
    /\ exit_cause = "motor"
    /\ thymio.robot_action = "avoid"
    /\ thymio.motor_left_target = 0
    /\ thymio.motor_right_target = 0

\* The pass receives a message on the topic the loop takes for the robot's.
OwnDirective(v, r, bus) ==
    LET m == Recv(v, r, bus)
    IN  m # NoMessage /\ Len(m) = 2 /\ m[1] = OwnTopic(v, r)

\* C20 as stated: across one pass the action never changes from back to go,
\* whatever the directives and the sensor readings.
C20_BackNeverToGo ==
    [][ ~(thymio.robot_action = "back" /\ thymio'.robot_action = "go") ]_vars

\* C20 amended: across one pass the action changes from back to go only if
\* the pass receives a directive on the robot's own topic; in every other
\* pass, the one in which the back timer elapses included, back is followed
\* by back, avoid, or stop.
C20_BackToGoOnlyByDirective ==
    [][ (IsPass /\ thymio.robot_action = "back"
              /\ ~OwnDirective(variant, thymio, delivered')) =>
           /\ thymio'.robot_action \in {"back", "avoid", "stop"}
           /\ (/\ thymio.robot_state = "on"
               /\ thymio_pc' = "loop"
               /\ Recv(variant, thymio, delivered') = NoMessage
               /\ Elapsed(thymio, thymio_clock'))
              => thymio'.robot_action = "avoid" ]_vars

\* The last pass began with the robot on and backing, past the back duration,
\* and received nothing: the action is avoid with a new timer, the rotation
\* is the one the line gave.
C20_Witness ==
    /\ thymio_pc = "loop"
    /\ timer_due = "back"
    /\ delivered = NoMessage
    /\ thymio.robot_state = "on"
    /\ thymio.robot_action = "avoid"
    /\ thymio.action_start_time = thymio_clock
    /\ thymio.action_duration \in Uniform
    /\ thymio.motor_left_target = thymio.rotation_direction * robot_speed
    /\ thymio.motor_right_target = -thymio.rotation_direction * robot_speed

\* The step is a pass in which the loop receives command data on the topic
\* it takes for the robot's.
ReceivesOwn(data) ==
    /\ IsPass
    /\ exit_cause' # "bus"
    /\ OwnDirective(variant, thymio, delivered')
    /\ delivered'[2] = data

\* The step is a pass in which the loop receives nothing, or a led message.
ReceivesNoDirective ==
    /\ IsPass
    /\ \/ Recv(variant, thymio, delivered') = NoMessage
       \/ exit_cause' = "bus"
       \/ variant = "timing" /\ delivered'[1] = "led" /\ Len(delivered') = 2

\* Both motor targets are 0.
MotorsZero(r) == r.motor_left_target = 0 /\ r.motor_right_target = 0

\* The robot is on and paused: no live timer, both motor targets 0.
HeldPaused(r) ==
    /\ r.robot_state = "on"
    /\ r.robot_action = "pause"
    /\ r.action_duration = 0
    /\ MotorsZero(r)

C21_WitnessLater ==
    /\ thymio_pc = "loop"
    /\ delivered = NoMessage
    /\ repeated
    /\ HeldPaused(thymio)
    /\ thymio.rotation_direction # 0
    /\ thymio_clock - thymio.action_start_time > MaxAvoid

-----------------------------------------------------------------------------
(* Properties of the timing session's detection step (checked under Spec). *)

\* C22 as stated: at a detection the go is published at once and the
\* confirmation interval of 0.2 s + 0.1 s per effect level is slept after it.
C22_ResumeThenWait ==
    \A k \in 1 .. Len(resumes) :
        resumes[k][2] = 0 /\ resumes[k][3] = SleepTicks(resumes[k][1])

\* C22 amended: at a detection the orchestrator first sleeps the interval of
\* 0.2 s + 0.1 s per effect level of the trial, with the robot still paused,
\* then publishes the go (and led 1 outside training) and opens the response
\* window without further wait.
C22_WaitThenResume ==
    /\ [](\A k \in 1 .. Len(resumes) :
              /\ resumes[k][1] = trials[k][3]
              /\ resumes[k][2] = SleepTicks(resumes[k][1])
              /\ resumes[k][2] = 20 + 10 * trials[k][3]
              /\ resumes[k][3] = 0)
    /\ [][ Len(resumes') # Len(resumes) =>
              /\ Len(resumes') = Len(resumes) + 1
              /\ trial_index = Len(resumes)
              /\ now' >= now + SleepTicks(trials[trial_index + 1][3])
              /\ \E i \in Len(published) + 1 .. Len(published') :
                    /\ published'[i][2] = "go"
                    /\ \A j \in Len(published) + 1 .. i - 1 : published'[j][2] = "pause"
                    /\ ~run_args.is_training =>
                          (i < Len(published') /\ published'[i + 1] = Led(1)) ]_vars

\* A trial of effect level 6 has been detected in a test or experiment
\* session: 0.8 s were slept before the go, none after it, and the response
\* window is open.
C22_Witness ==
    /\ variant = "timing"
    /\ pc = "loop"
    /\ Len(resumes) = 1
    /\ resumes[1] = <<6, 80, 0>>
    /\ robot_detected
    /\ ~robot_stopped
    /\ \E i \in 1 .. Len(published) - 1 :
          published[i][2] = "go" /\ published[i + 1] = Led(1)

-----------------------------------------------------------------------------
(* Properties of the go branch and of the motor mapping (SpecRobot).      *)

\* The controller is in its loop, switched on and going.
Going == thymio_pc \in {"ready", "loop"} /\ thymio.robot_state = "on"
                                       /\ thymio.robot_action = "go"

\* C23: when the controller is on and going, a pass in which a forward sensor
\* exceeds the obstacle threshold leaves the go branch with action avoid and
\* a rotation in {-1, 1}, whatever the ground sensors read.
C23_ObstacleGivesAvoid ==
    Going =>
        \A h \in ProxReadings, g \in GroundReadings :
            detect_obstacle(Front(h)) =>
                \A r1 \in GoObstacle(thymio, thymio_clock, h) :
                    /\ GoLine(r1, thymio_clock, g).robot_action = "avoid"
                    /\ GoLine(r1, thymio_clock, g).rotation_direction \in {-1, 1}

\* The motor targets the actuation mapping gives for the action of r.
TargetsOf(r) ==
    IF r.robot_action = "go" THEN <<robot_speed, robot_speed>>
    ELSE IF r.robot_action = "avoid"
         THEN <<r.rotation_direction * robot_speed, -r.rotation_direction * robot_speed>>
    ELSE IF r.robot_action = "back" THEN <<-robot_speed, -robot_speed>>
    ELSE <<0, 0>>

\* C24: at the end of every completed pass of the loop the action is one of
\* go, avoid, back, stop, pause and the motor targets are the ones the mapping
\* gives for it: (v, v), (s*v, -s*v), (-v, -v), (0, 0), (0, 0).
C24_MotorsFollowAction ==
    thymio_pc = "loop" =>
        /\ thymio.robot_action \in {"go", "avoid", "back", "stop", "pause"}
        /\ <<thymio.motor_left_target, thymio.motor_right_target>> = TargetsOf(thymio)

-----------------------------------------------------------------------------
(* The cue type and the bookkeeping of a session (checked under SpecCue:  *)
(* sessions of both variants on timelines with every cue type).           *)

CuePlainInputs ==
    { RunArgs(FALSE, FALSE, 1, 0, <<0>>, default_effect_types),
      RunArgs(FALSE, FALSE, 0, 50, <<2>>, default_effect_types) }

CueTimingInputs ==
    { RunArgs(FALSE, TRUE, 1, 0, <<2>>, <<0, 6>>),
      RunArgs(FALSE, FALSE, 1, 0, <<3>>, <<3>>) }

ExpCallCue == ExpCallFrom(CuePlainInputs)
TrnCallCue == TrnCallFrom(CueTimingInputs)
TrnSetupSome == TrnSetupDraw(SomeRobots)

NextCue ==
    \/ ExpCallCue /\ UNCHANGED robotVars
    \/ TrnCallCue /\ UNCHANGED robotVars
    \/ SessGenerate
    \/ ExpSetup /\ UNCHANGED robotVars
    \/ ExpIteration /\ UNCHANGED robotVars
    \/ TrnSetupSome /\ UNCHANGED robotVars
    \/ TrnIterationSome /\ UNCHANGED robotVars
    \/ TrnLoopExit /\ UNCHANGED robotVars

SpecCue == Init /\ [][NextCue]_vars

\* Cue types: none, audio, tactile, both, and one that no branch knows.
CueValues == 0 .. 4

\* Timeline tl with the cue of the trials in K replaced by c.
Recue(tl, K, c) ==
    [k \in 1 .. Len(tl) |-> IF k \in K THEN <<tl[k][1], c, tl[k][3]>> ELSE tl[k]]

\* Timelines that differ from tl in cue types only: every trial, or the trial
\* at position i, given another cue.
Recued(tl, i) ==
    { Recue(tl, K, c) : K \in {1 .. Len(tl), {i} \cap (1 .. Len(tl))}, c \in CueValues }

\* What a pass of the plain loop leaves behind apart from the stimulus: trial
\* index, flags, paused robot and directives.
ExpLow(r) == <<r.idx, r.ce, r.rstate, r.id, r.pub>>

\* The same for a pass of the timing loop.
TrnLow(r) ==
    <<r.clk, r.base, r.el, r.idx, r.stopped, r.detected, r.finished, r.intrial, r.rst,
      r.id, r.rstate, r.ss, r.pub, r.resp, r.res>>

\* The elapsed times the next pass of the plain loop can work on.
ExpElapsed ==
    { el \in {now - start_time} \cup Ahead(ExpPoints, now - start_time) :
        el <= Ticks(session_duration) }

\* An alternative of the state of a plain pass: another timeline, another
\* cue state.
ExpAlternatives(el) ==
    { [ExpState(el) EXCEPT !.tl = tl, !.cs = cs] :
        tl \in Recued(trials, trial_index + 1), cs \in CueValues }

TrnAlternatives(t) ==
    { [TrnState(t) EXCEPT !.tl = tl, !.cs = cs] :
        tl \in Recued(trials, trial_index + 1), cs \in CueValues }

\* C25: in either variant a pass of the loop, with the same clock reading,
\* robot draw and buttons, leaves the same trial index, flags, paused robot
\* and directives on a timeline that differs in cue types only and from
\* another cue state; so two sessions on such timelines, step by step,
\* publish the same directives and go through the same index and flags.
C25_CueBlind ==
    /\ (variant = "plain" /\ pc = "loop") =>
          \A el \in ExpElapsed : \A alt \in ExpAlternatives(el) :
              {ExpLow(r) : r \in ExpBranch(alt)}
                  = {ExpLow(r) : r \in ExpBranch(ExpState(el))}
    /\ (variant = "timing" /\ pc = "loop" /\ elapsed_time <= Ticks(session_duration)) =>
          \A t \in TrnReadings :
              \A rid \in (IF TrnDue(TrnState(t)) /\ robot_stop_id = -1
                          THEN {0, num_robots - 1} ELSE {0}),
                 main \in (IF TrnDue(TrnState(t)) \/ robot_stopped THEN BOOLEAN ELSE {FALSE}) :
                 \A long \in (IF robot_detected \/ (main /\ ~run_args.is_training)
                              THEN BOOLEAN ELSE {FALSE}),
                    short \in (IF robot_detected \/ (main /\ ~run_args.is_training)
                               THEN BOOLEAN ELSE {FALSE}) :
                    \E low \in {TrnLow(TrnPassResult(TrnState(t), rid, main, long, short,
                                                     long, short))} :
                        \A alt \in TrnAlternatives(t) :
                            TrnLow(TrnPassResult(alt, rid, main, long, short, long, short))
                                = low

\* A plain session is about to emit a tactile cue that another timeline would
\* not emit: the pass differs from the pass on that timeline, in the stimulus.
C25_Witness ==
    /\ variant = "plain"
    /\ pc = "loop"
    /\ trial_index < Len(trials)
    /\ trials[trial_index + 1][2] = 2
    /\ \E el \in ExpElapsed :
          /\ \A r \in ExpBranch(ExpState(el)) : r.cs = 3 /\ r.ce /\ ~cue_emitted
          /\ \E alt \in ExpAlternatives(el) :
                /\ alt.cs = cue_state
                /\ \A r \in ExpBranch(alt) : r.cs = 1 /\ r.ce

\* A timing session is about to handle a trial with the tactile cue.
C25_WitnessTiming ==
    /\ variant = "timing"
    /\ pc = "loop"
    /\ \E t \in TrnReadings :
          /\ TrnDue(TrnState(t))
          /\ TrnState(t).tl[trial_index + 1][2] = 2
          /\ TrnPassResult(TrnState(t), 0, FALSE, FALSE, FALSE, FALSE, FALSE).cs = 3
          /\ \E alt \in TrnAlternatives(t) :
                TrnPassResult(alt, 0, FALSE, FALSE, FALSE, FALSE, FALSE).cs = 1

-----------------------------------------------------------------------------
(* Feedback, order of the events of a trial, pauses (checked under Spec).  *)

\* C26: every response window of a timing session that has closed published
\* exactly one feedback directive, led 2 or led 3, before the led 0 of the
\* trial, whatever the effect level and the response buttons.
C26_OneFeedbackPerResponse ==
    \A k \in 1 .. Len(responses) :
        /\ Len(FeedbackOf(responses[k])) = 1
        /\ FeedbackOf(responses[k])[1] \in {Correct, Incorrect}

\* The number of directives with command c among the first n published.
RECURSIVE Commanded(_, _)
Commanded(c, n) ==
    IF n = 0 THEN 0
    ELSE Commanded(c, n - 1) + (IF published[n][2] = c THEN 1 ELSE 0)

\* Pauses published with no go after them.
Outstanding == Commanded("pause", Len(published)) - Commanded("go", Len(published))

\* The directives the step publishes.
Fresh == SubSeq(published', Len(published) + 1, Len(published'))

\* Position of the first directive with command c among those of the step, 0
\* if there is none.
FirstFresh(c) ==
    IF \E i \in 1 .. Len(Fresh) : Fresh[i][2] = c
    THEN CHOOSE i \in 1 .. Len(Fresh) :
            Fresh[i][2] = c /\ \A j \in 1 .. i - 1 : Fresh[j][2] # c
    ELSE 0

\* C27: in both variants the cues are emitted in timeline order, one per
\* trial, and only for the trial the index points at; a pause is published
\* only for the trial whose cue has been emitted (in the step of the cue or
\* after it), a go only after the pause of that trial, and the index advances
\* by one, in the step of the go or after it, with no pause left outstanding;
\* so nothing of trial i+1 happens before trial i is resolved.
C27_TrialOrder ==
    /\ [](/\ Len(emitted) \in {trial_index, trial_index + 1}
          /\ \A k \in 1 .. Len(emitted) : emitted[k][1] = k - 1
          /\ Len(emitted) <= Len(trials)
          /\ Outstanding \in {0, 1}
          /\ Outstanding = 1 => Len(emitted) = trial_index + 1
          /\ Commanded("pause", Len(published)) <= Len(emitted))
    /\ [][ Len(emitted') # Len(emitted) =>
              /\ Len(emitted') = Len(emitted) + 1
              /\ Len(emitted) = trial_index
              /\ Outstanding = 0
              /\ emitted'[Len(emitted')] = <<trial_index, trials[trial_index + 1][2]>> ]_vars
    /\ [][ FirstFresh("pause") # 0 =>
              /\ Len(emitted') = trial_index + 1
              /\ Outstanding = 0
              /\ \A i \in 1 .. Len(Fresh) : Fresh[i][2] = "pause" => i = FirstFresh("pause")
              /\ FirstFresh("go") # 0 => FirstFresh("pause") < FirstFresh("go") ]_vars
    /\ [][ FirstFresh("go") # 0 =>
              /\ Outstanding = 1 \/ FirstFresh("pause") # 0
              /\ Len(emitted') = trial_index + 1 ]_vars
    /\ [][ trial_index' # trial_index =>
              /\ trial_index' = trial_index + 1
              /\ Len(emitted') = trial_index + 1
              /\ Outstanding' = 0 ]_vars

\* A plain session has gone through cue, pause and go of its first trial and
\* has emitted the cue of the second.
C27_Witness ==
    /\ variant = "plain"
    /\ pc = "loop"
    /\ trial_index = 1
    /\ Len(emitted) = 2
    /\ Commanded("pause", Len(published)) = 1
    /\ Commanded("go", Len(published)) = 1

\* A timing session has resolved two trials, each with its pause and its go.
C27_WitnessTiming ==
    /\ variant = "timing"
    /\ trial_index = 2
    /\ Len(emitted) = 2
    /\ Commanded("pause", Len(published)) = 2
    /\ Commanded("go", Len(published)) = 2

------------------------------------------------------------------------------
(* Directives addressed to other robots (checked under SpecRobot).         *)

\* Directive state, action, timer and motor targets of a controller.
Core(r) ==
    << r.robot_state, r.robot_action, r.action_start_time, r.action_duration,
       r.rotation_direction, r.motor_left_target, r.motor_right_target >>

\* The outcomes of a pass without the leds.
CoreResults(v, r, bus, t) ==
    { <<o[1], Core(o[2]), o[3]>> : o \in PassResults(v, r, bus, t) }

\* Directives on the topics of the robots "1", "2" and "7" and on the led
\* topic.
Probes == { Pause(1), RobotOn(1), Pause(2), Go(2), RobotOn(2), Go(7), Led(2) }

\* The topic is not `all` and is not the controller's identifier: it differs
\* from the identifier the socket subscribes to or from the one the loop
\* compares with.
ForeignTopic(r, m) == m[1] # "all" /\ (m[1] # r.robot_id \/ m[1] # OwnTopic(variant, r))

\* C28: in every state of a running controller, a pass offered a directive
\* whose topic is neither `all` nor the controller's own identifier has
\* exactly the outcomes of a pass with no message (for a led message of the
\* timing variant: the same directive state, action, timer and motor targets).
C28_ForeignDirectiveInert ==
    thymio_pc \in {"ready", "loop"} =>
        \E silent \in {PassResults(variant, thymio, NoMessage, thymio_clock)} :
            \A m \in Probes :
                ForeignTopic(thymio, m) =>
                    IF m[1] = "led"
                    THEN CoreResults(variant, thymio, m, thymio_clock)
                           = { <<o[1], Core(o[2]), o[3]>> : o \in silent }
                    ELSE PassResults(variant, thymio, m, thymio_clock) = silent

\* A controller that is on and going has taken a pass with a pause for robot
\* "2" on the bus and goes on.
C28_Witness ==
    /\ thymio_pc = "loop"
    /\ delivered = Pause(2)
    /\ repeated
    /\ thymio.robot_state = "on"
    /\ thymio.robot_action = "go"
    /\ thymio.motor_left_target = robot_speed

\* A timing controller whose node identifier is not the identifier it
\* subscribed with is running: a directive on either topic is foreign.
C28_WitnessNode ==
    /\ variant = "timing"
    /\ thymio_pc = "loop"
    /\ thymio.node_id # thymio.robot_id
    /\ thymio.robot_state = "on"
    /\ thymio.robot_action = "go"

------------------------------------------------------------------------------
(* Alternation of pause and go (checked under Spec).                       *)

IsPauseOrGo(m) == m[2] \in {"pause", "go"}

\* The pause and go directives of the session, in the order published.
PauseGoSeq == SelectSeq(published, IsPauseOrGo)

\* The robots with a pause published and no go to them after it.
PausedRobots ==
    { published[i][1] : i \in { k \in 1 .. Len(published) :
        /\ published[k][2] = "pause"
        /\ \A j \in k + 1 .. Len(published) :
              published[j] # <<published[k][1], "go">> } }

\* C29: at every point of a session of either variant, the pause and go
\* directives published so far alternate, starting with a pause, every go is
\* addressed to the robot of the pause just before it, every topic is a robot
\* identifier, and at most one robot has an outstanding pause.
C29_PauseGoAlternate ==
    /\ \A k \in 1 .. Len(PauseGoSeq) :
          /\ PauseGoSeq[k][1] \in {Str(i) : i \in 0 .. num_robots - 1}
          /\ IF k % 2 = 1 THEN PauseGoSeq[k][2] = "pause"
             ELSE PauseGoSeq[k] = <<PauseGoSeq[k - 1][1], "go">>
    /\ Cardinality(PausedRobots) <= 1

\* A plain session has paused and resumed one robot and has paused another.
C29_Witness ==
    /\ variant = "plain"
    /\ Len(PauseGoSeq) = 3
    /\ PauseGoSeq[1][1] # PauseGoSeq[3][1]
    /\ PausedRobots = {PauseGoSeq[3][1]}

\* A timing session has paused and resumed its robot in each of two trials.
C29_WitnessTiming ==
    /\ variant = "timing"
    /\ Len(PauseGoSeq) = 4
    /\ trial_index = 2
    /\ PausedRobots = {}

------------------------------------------------------------------------------
(* Plain sessions that run to the end of their loop: a repetition-driven   *)
(* session and a duration-driven one of nine trials, the intervals of the  *)
(* latter drawn from the two ends of the configured range; every pause     *)
(* draws the last robot.                                                   *)

NaturalInputs ==
    { RunArgs(FALSE, FALSE, 1, 0, <<0>>, default_effect_types),
      RunArgs(FALSE, FALSE, 0, 130, <<3>>, default_effect_types) }

ExpCallNatural == ExpCallFrom(NaturalInputs)

\* generate_trials inside the session, the intervals of the duration path at
\* the ends of the range.
SessGenerateEnds ==
    /\ pc = "gen"
    /\ \/ GenShuffleStep
       \/ GenAppendCombination
       \/ GenAppendDefaultDraw({gen_args.min_interval, gen_args.max_interval})
       \/ GenReturn
    /\ UNCHANGED <<sessVars, robotVars>>

ExpIterationLast == ExpIterationDraw({num_robots - 1})

InitNatural == GenIdle /\ ThymioIdle /\ SessIdle("plain")
NextNatural ==
    \/ ExpCallNatural /\ UNCHANGED robotVars
    \/ SessGenerateEnds
    \/ ExpSetup /\ UNCHANGED robotVars
    \/ ExpIterationLast /\ UNCHANGED robotVars
SpecNatural == InitNatural /\ [][NextNatural]_vars

\* C30: a plain session that has left its loop by the loop condition has
\* resolved every trial of its timeline, has no pause without a later go to
\* the same robot, and its last directive is (all, off).
C30_NaturalCompletionResolves ==
    (variant = "plain" /\ pc = "completed") =>
        /\ trial_index = Len(trials)
        /\ PausedRobots = {}
        /\ published[Len(published)] = AllOff

\* The same of repetition-driven sessions only.
C30_RepetitionCompletionResolves ==
    (variant = "plain" /\ pc = "completed" /\ run_args.num_rep # 0) =>
        /\ trial_index = Len(trials)
        /\ PausedRobots = {}
        /\ published[Len(published)] = AllOff

------------------------------------------------------------------------------
(* Timing sessions whose loop may be late: outside a window a pass may     *)
(* read the clock at any of the sampled elapsed times ahead, however far.  *)

LateInputs ==
    { RunArgs(TRUE, FALSE, 1, 0, <<0>>, <<0, 6>>),
      RunArgs(FALSE, TRUE, 1, 0, <<0>>, <<0, 6>>),
      RunArgs(FALSE, FALSE, 1, 0, <<2>>, <<3>>) }

TrnCallLate == TrnCallFrom(LateInputs)

\* The readings of a loop that is not held to MaxSkip.
LateReadings ==
    IF in_trial THEN TrnReadings
    ELSE {now} \cup {start_time + p : p \in {q \in TrnPoints : q > now - start_time}}

TrnIterationLate == TrnIterationAt(LateReadings, SomeRobots)

InitLate == GenIdle /\ ThymioIdle /\ SessIdle("timing")
NextLate ==
    \/ TrnCallLate /\ UNCHANGED robotVars
    \/ SessGenerate
    \/ TrnSetupSome /\ UNCHANGED robotVars
    \/ TrnIterationLate /\ UNCHANGED robotVars
    \/ TrnLoopExit /\ UNCHANGED robotVars
SpecLate == InitLate /\ [][NextLate]_vars

\* C31: a timing session never leaves its loop by the loop condition while a
\* trial awaits its detection or its response, and when it does leave the
\* loop that way every trial of its timeline is resolved.
C31_NoCompletionInWindow ==
    (variant = "timing" /\ pc = "completed") =>
        /\ ~in_trial
        /\ ~robot_stopped /\ ~robot_detected
        /\ trial_index = Len(trials)

------------------------------------------------------------------------------
(* The flags of the timing loop (checked under Spec).                      *)

\* The step is a pass of the timing loop.
IsTrnPass == variant = "timing" /\ pc = "loop" /\ pc' \in {"loop", "aborted"}

\* C32: after every pass of the timing loop robot_stopped and robot_detected
\* are not both true, either of them implies in_trial, trial_finished is
\* false and trial_index lies in 0 .. Len(trials); a pass changes trial_index
\* only by adding one, exactly when it resolves a trial (it publishes the
\* "led 0" of the finish and leaves no trial open).
C32_FlagsConsistent ==
    /\ []((variant = "timing" /\ pc \in {"loop", "completed", "aborted"}) =>
            /\ ~(robot_stopped /\ robot_detected)
            /\ (robot_stopped \/ robot_detected) => in_trial
            /\ ~trial_finished
            /\ trial_index \in 0 .. Len(trials))
    /\ [][ IsTrnPass =>
              LET resolves == \E i \in Len(published) + 1 .. Len(published') :
                                  /\ published'[i] = Led(0)
                                  /\ i <= IF pc' = "aborted" THEN abort_at' ELSE Len(published')
              IN  /\ trial_index' \in {trial_index, trial_index + 1}
                  /\ trial_index' = trial_index + 1 <=> resolves
                  /\ resolves => ~in_trial' /\ ~robot_stopped' /\ ~robot_detected' ]_vars

\* A test session is in the response window of its second trial: the first
\* was resolved, the robot of the second has been detected.
C32_Witness ==
    /\ variant = "timing"
    /\ pc = "loop"
    /\ run_args.is_test
    /\ trial_index = 1
    /\ robot_detected /\ in_trial /\ ~robot_stopped

\* A training session has resolved both its trials.
C32_WitnessTraining ==
    /\ variant = "timing"
    /\ run_args.is_training
    /\ trial_index = 2
    /\ Len(trials) = 2
    /\ ~in_trial

------------------------------------------------------------------------------
(* A controller on a bus that carries, besides the directives of the      *)
(* orchestrators, the words avoid and back as commands on the robot's     *)
(* topic: commands outside the vocabulary, like any other word.           *)

WordMessages ==
    { NoMessage, AllOn, AllOff, Pause(1), Go(1),
      <<"1", "avoid">>, <<"1", "back">> }

ThymioTickWords == ThymioTickFrom(WordMessages)

InitWords == Init
NextWords ==
    \/ ThymioStart
    \/ ThymioTickWords
    \/ ThymioInterrupt
SpecWords == InitWords /\ [][NextWords]_vars

\* The controller has completed a pass, is switched on and is in action a.
OnIn(a) ==
    thymio_pc = "loop" /\ thymio.robot_state = "on" /\ thymio.robot_action = a

\* A time later than every timer a controller can hold.
LateTime == thymio_clock + back_duration + MaxAvoid + 1

\* The outcomes of a pass that receives nothing, at time t.
Silent(t) == PassResults(variant, thymio, NoMessage, t)

====
